---- MODULE Spec2Model ----
(***************************************************************************)
(* Model of llm_xml_caster: the self-correcting extraction session         *)
(* generate_as_with_retries (src/src/bind.rs), the schema registry         *)
(* (src/src/type/mod.rs and the LlmPrompt impls), the value coercion       *)
(* parsers (src/src/type/bool.rs, macro.rs) and the field decoders chosen  *)
(* by the derive macro (src/helper/src/lib.rs).                            *)
(*                                                                         *)
(* Text is a sequence of one-character strings; the literal parts of a     *)
(* format!() template are kept as single multi-character chunks, so a      *)
(* formatted message is the concatenation of its chunks and arguments.     *)
(* Offsets are 0-based byte offsets as in Rust.                            *)
(***************************************************************************)
EXTENDS Integers, Sequences, FiniteSets, TLC

VARIABLES
    target,       \* the type parameter T of the call: a derived struct or a derived enum
    pc,           \* position of the session inside generate_as_with_retries
    prompt,       \* the caller's seed messages (argument prompt)
    retries,      \* argument retries
    chat_req,     \* the conversation (ChatRequest.messages)
    errs,         \* the recorded errors (Vec<Error>)
    attempt,      \* the loop counter _attempt (0 before the first round)
    res,          \* the reply of the round in progress
    xml_content,  \* the sliced payload of the round in progress
    result,       \* what the call returned
    sent,         \* the completion client's record: the conversation of every exec_chat call
    log           \* the outcome of every finished round, in order

vars == <<target, pc, prompt, retries, chat_req, errs, attempt, res, xml_content, result, sent, log>>

VARIABLES
    din,          \* the input handed to a parser: its operation, target type and raw content
    dout          \* what the parser returned for din

dvars == <<din, dout>>

VARIABLES
    holder,       \* CACHE_HOLDER: type identity -> index of its CacheInner in inners, 0 if absent
    inners,       \* every CacheInner allocated so far, with its two one-shot cells
    statics,      \* the function-local static SCHEMA_CACHE of every derived struct
    shard,        \* the lock of the registry shard: its readers and its writer
    th,           \* every caller thread: its call stack and what its last call returned
    runs          \* how many times each building closure has run, per cell

rvars == <<holder, inners, statics, shard, th, runs>>

allvars == <<vars, dvars, rvars>>

(* ------------------------------ bounds -------------------------------- *)

MaxRetries == 2
MaxPieces == 3

(* ------------------------------ strings ------------------------------- *)

None == -1

Min(S) == CHOOSE x \in S : \A y \in S : x <= y
Max(S) == CHOOSE x \in S : \A y \in S : x >= y

Occurrences(text, pat) ==
    {i \in 0..(Len(text) - Len(pat)) : SubSeq(text, i + 1, i + Len(pat)) = pat}

\* str::find: the offset of the first occurrence, or None
find(text, pat) ==
    IF Occurrences(text, pat) = {} THEN None ELSE Min(Occurrences(text, pat))

\* variant: the end boundary searched from the front, like the start boundary
rfind_first(text, pat) ==
    IF Occurrences(text, pat) = {} THEN None ELSE Min(Occurrences(text, pat))

\* str::rfind: the offset of the last occurrence, or None
rfind(text, pat) ==
    IF Occurrences(text, pat) = {} THEN None ELSE Max(Occurrences(text, pat))

\* &text[a..b]; the caller guarantees a <= b <= Len(text)
Slice(text, a, b) == SubSeq(text, a + 1, b)

(* --------------------------- the target type -------------------------- *)

\* variant: the root tag of an enum is a sentinel name
root_name_sentinel == IF target = "enum" THEN <<"enum">> ELSE <<"r">>

\* helper lib.rs line 58 for a struct r, line 127 for an enum
root_name == IF target = "enum" THEN << >> ELSE <<"r">>

\* helper lib.rs lines 54-55 for struct r { f }, lines 122-124 for
\* enum { Simple }
get_prompt_schema ==
    IF target = "enum"
    THEN <<"The following are possible XML structures for the current enum type:\n<Simple/> <!-- d -->">>
    ELSE <<"<r>\n  <f>schema of f</f> <!-- d -->\n</r>">>

\* a document of the enum: the variant is the outer tag
VariantDocument == <<"<", "Simple", "/", ">">>

valid_example ==
    IF target = "enum" THEN VariantDocument
    ELSE <<"<", "r", ">", "o", "k", "<", "/", "r", ">">>

start_tag == <<"<">> \o root_name \o <<">">>
end_tag == <<"<", "/">> \o root_name \o <<">">>

(* ------------------------------ messages ------------------------------ *)

ChatMessage(role, content) == [role |-> role, content |-> content]

SystemInstruction ==
    ChatMessage("system",
        <<"You must respond with a valid XML document(root name is ">> \o root_name
        \o <<") that adheres to the following schema: ">> \o get_prompt_schema)

ExampleMessage ==
    ChatMessage("assistant",
        <<"Here is a valid example for your reference:\n">> \o valid_example)

DecodeDiagnostic(content, e) ==
    ChatMessage("assistant",
        <<"The last time you responded, the XML content was: ">> \o content
        \o <<"\nThe error was: ">> \o <<e>>
        \o <<"\nPlease ensure your response strictly follows the required XML format.\nThe format body is: ">>
        \o get_prompt_schema)

ExtractionText == <<"cannot find the root ">> \o root_name \o <<" of the structure">>

MissingRootDiagnostic ==
    ChatMessage("assistant",
        <<"The error was: cannot find the root ">> \o root_name
        \o <<" of the structure\nPlease ensure your response strictly follows the required XML format.\n The format body is: ">>
        \o get_prompt_schema)

(* ------------------------------- errors ------------------------------- *)

XmlExtraction(msg) == [kind |-> "XmlExtraction", msg |-> msg]
XmlDeserialization(e) == [kind |-> "XmlDeserialization", source |-> e]

RetryLimitExceeded(es) == [kind |-> "RetryLimitExceeded", errs |-> es]
ChatRequestError == [kind |-> "ChatRequest", source |-> "transport failure"]

Ok(v) == [kind |-> "Ok", value |-> v]
Err(e) == [kind |-> "Err", err |-> e]
Pending == [kind |-> "pending"]

(* ---------------------- the external collaborators -------------------- *)

\* the texts the completion client may return: up to MaxPieces pieces, each
\* the start tag, the end tag or a character of prose (for an enum: a
\* document of the enum)
Pieces == {start_tag, end_tag, IF target = "enum" THEN VariantDocument ELSE <<"a">>}

RECURSIVE Texts(_)
Texts(n) ==
    IF n = 0 THEN {<<>>}
    ELSE Texts(n - 1) \cup {t \o p : t \in Texts(n - 1), p \in Pieces}

\* ChatResponse::first_text(): Some(text) or None
NoReply == [kind |-> "none", text |-> <<>>]
NoText == [kind |-> "no_text", text |-> <<>>]
SomeText(t) == [kind |-> "text", text |-> t]
Responses == {NoText} \cup {SomeText(t) : t \in Texts(MaxPieces)}

\* quick_xml::de::from_str: a value of T, or a DeError (its Display text)
Values == {"value"}
DeErrors == {"missing field f"}

\* the seed conversations a caller may pass
UserMessage == ChatMessage("user", <<"question">>)
Seeds == {<< >>, <<UserMessage>>}

(* ------------------------ the outcome of a round ---------------------- *)

Round(outcome, payload, e) == [outcome |-> outcome, payload |-> payload, e |-> e]

(* ------------------------- generate_as_with_retries ------------------- *)

(* Each specification drives one part of the program; the variables of    *)
(* the other parts stay idle in it.                                       *)
DecodeIdle == din = [op |-> "none"] /\ dout = Pending

RegistryIdle ==
    /\ holder = << >>
    /\ inners = << >>
    /\ statics = << >>
    /\ shard = << >>
    /\ th = << >>
    /\ runs = << >>

SessionIdle ==
    /\ target = "none"
    /\ pc = "idle"
    /\ prompt = << >>
    /\ retries = 0
    /\ chat_req = << >>
    /\ errs = << >>
    /\ attempt = 0
    /\ res = NoReply
    /\ xml_content = << >>
    /\ result = Pending
    /\ sent = << >>
    /\ log = << >>

\* the arguments of a call and its local state on entry
Entry ==
    /\ pc = "entry"
    /\ prompt \in Seeds
    /\ retries \in 0..MaxRetries
    /\ chat_req = prompt
    /\ errs = <<>>
    /\ attempt = 0
    /\ res = NoReply
    /\ xml_content = <<>>
    /\ result = Pending
    /\ sent = <<>>
    /\ log = <<>>
    /\ DecodeIdle
    /\ RegistryIdle

\* the state on entry to generate_as_with_retries::<T> for a derived struct
Init == target = "struct" /\ Entry

\* the state on entry to generate_as_with_retries::<T> for a derived enum
VariantInit == target = "enum" /\ Entry

\* variant: the instruction is put in front of the seed
Start_prepend ==
    /\ pc = "entry"
    /\ chat_req' = <<SystemInstruction>> \o chat_req
    /\ errs' = <<>>
    /\ pc' = "loop"
    /\ UNCHANGED <<target, prompt, retries, attempt, res, xml_content, result, sent, log>>

\* lines 54-59: the instruction is appended to the seed, errs starts empty
Start ==
    /\ pc = "entry"
    /\ chat_req' = Append(chat_req, SystemInstruction)
    /\ errs' = <<>>
    /\ pc' = "loop"
    /\ UNCHANGED <<target, prompt, retries, attempt, res, xml_content, result, sent, log>>

\* variant: the range runs one round too far
HasNextAttempt_inclusive == attempt <= retries

\* line 61: for _attempt in 1..=retries has another round
HasNextAttempt == attempt < retries

\* variant: every round sends the conversation as it was before the loop
Send_initial ==
    /\ pc = "loop"
    /\ HasNextAttempt
    /\ attempt' = attempt + 1
    /\ sent' = Append(sent, Append(prompt, SystemInstruction))
    /\ pc' = "await"
    /\ UNCHANGED <<target, prompt, retries, chat_req, errs, res, xml_content, result, log>>

\* lines 61-64: the next round starts and sends a clone of the conversation
Send ==
    /\ pc = "loop"
    /\ HasNextAttempt
    /\ attempt' = attempt + 1
    /\ sent' = Append(sent, chat_req)
    /\ pc' = "await"
    /\ UNCHANGED <<target, prompt, retries, chat_req, errs, res, xml_content, result, log>>

\* lines 61, 109: the loop is exhausted
Exhausted ==
    /\ pc = "loop"
    /\ ~HasNextAttempt
    /\ result' = Err(RetryLimitExceeded(errs))
    /\ pc' = "done"
    /\ UNCHANGED <<target, prompt, retries, chat_req, errs, attempt, res, xml_content, sent, log>>

\* variant: a transport error is recorded and the loop goes on
ExecChatErr_retried ==
    /\ pc = "await"
    /\ errs' = Append(errs, ChatRequestError)
    /\ pc' = "loop"
    /\ log' = Append(log, Round("transport", <<>>, ""))
    /\ UNCHANGED <<target, prompt, retries, chat_req, attempt, res, xml_content, result, sent>>

\* line 64: .await? on a transport error returns it
ExecChatErr ==
    /\ pc = "await"
    /\ result' = Err(ChatRequestError)
    /\ pc' = "done"
    /\ log' = Append(log, Round("transport", <<>>, ""))
    /\ UNCHANGED <<target, prompt, retries, chat_req, errs, attempt, res, xml_content, sent>>

\* lines 62-64: the completion client answers
ExecChatOk ==
    /\ pc = "await"
    /\ \E r \in Responses : res' = r
    /\ pc' = "got"
    /\ UNCHANGED <<target, prompt, retries, chat_req, errs, attempt, xml_content, result, sent, log>>

\* variant: a reply without text gives its round back to the budget
SkipNoText_free ==
    /\ pc = "got"
    /\ res.kind = "no_text"
    /\ res' = NoReply
    /\ attempt' = attempt - 1
    /\ pc' = "loop"
    /\ log' = Append(log, Round("no_text", <<>>, ""))
    /\ UNCHANGED <<target, prompt, retries, chat_req, errs, xml_content, result, sent>>

\* variant: a reply without text is recorded as an extraction error
SkipNoText_recorded ==
    /\ pc = "got"
    /\ res.kind = "no_text"
    /\ errs' = Append(errs, XmlExtraction(ExtractionText))
    /\ res' = NoReply
    /\ pc' = "loop"
    /\ log' = Append(log, Round("no_text", <<>>, ""))
    /\ UNCHANGED <<target, prompt, retries, chat_req, attempt, xml_content, result, sent>>

\* lines 65, 106-107: no text content, the round ends
SkipNoText ==
    /\ pc = "got"
    /\ res.kind = "no_text"
    /\ res' = NoReply
    /\ pc' = "loop"
    /\ log' = Append(log, Round("no_text", <<>>, ""))
    /\ UNCHANGED <<target, prompt, retries, chat_req, errs, attempt, xml_content, result, sent>>

\* lines 73-74: the two boundary searches
xml_start == find(res.text, start_tag)
xml_end_tag_start == rfind(res.text, end_tag)
\* line 76
xml_end == xml_end_tag_start + Len(end_tag)

BothFound == xml_start # None /\ xml_end_tag_start # None

\* variant: the example message is not appended
RootMissing_no_example ==
    /\ pc = "got"
    /\ res.kind = "text"
    /\ ~BothFound
    /\ errs' = Append(errs, XmlExtraction(ExtractionText))
    /\ chat_req' = Append(chat_req, MissingRootDiagnostic)
    /\ res' = NoReply
    /\ pc' = "loop"
    /\ log' = Append(log, Round("missing", <<>>, ""))
    /\ UNCHANGED <<target, prompt, retries, attempt, xml_content, result, sent>>

\* lines 92-103: a boundary is missing
RootMissing ==
    /\ pc = "got"
    /\ res.kind = "text"
    /\ ~BothFound
    /\ errs' = Append(errs, XmlExtraction(ExtractionText))
    /\ chat_req' = Append(Append(chat_req, MissingRootDiagnostic), ExampleMessage)
    /\ res' = NoReply
    /\ pc' = "loop"
    /\ log' = Append(log, Round("missing", <<>>, ""))
    /\ UNCHANGED <<target, prompt, retries, attempt, xml_content, result, sent>>

\* line 77: &text[xml_start..xml_end] with xml_start > xml_end panics
SlicePanic ==
    /\ pc = "got"
    /\ res.kind = "text"
    /\ BothFound
    /\ xml_start > xml_end
    /\ pc' = "panicked"
    /\ log' = Append(log, Round("panic", <<>>, ""))
    /\ UNCHANGED <<target, prompt, retries, chat_req, errs, attempt, res, xml_content, result, sent>>

\* lines 73-77: the payload is sliced out of the text
Locate ==
    /\ pc = "got"
    /\ res.kind = "text"
    /\ BothFound
    /\ xml_start <= xml_end
    /\ xml_content' = Slice(res.text, xml_start, xml_end)
    /\ pc' = "decoding"
    /\ UNCHANGED <<target, prompt, retries, chat_req, errs, attempt, res, result, sent, log>>

\* lines 78-79, 105: the payload decodes, the value is returned
DecodeOk ==
    /\ pc = "decoding"
    /\ \E v \in Values : result' = Ok(v)
    /\ pc' = "done"
    /\ log' = Append(log, Round("ok", xml_content, ""))
    /\ UNCHANGED <<target, prompt, retries, chat_req, errs, attempt, res, xml_content, sent>>

\* variant: the example message is appended before the diagnostic
DecodeErr_example_first ==
    /\ pc = "decoding"
    /\ \E e \in DeErrors :
        /\ chat_req' = Append(Append(chat_req, ExampleMessage),
                              DecodeDiagnostic(xml_content, e))
        /\ errs' = Append(errs, XmlDeserialization(e))
        /\ log' = Append(log, Round("decode_err", xml_content, e))
    /\ res' = NoReply
    /\ xml_content' = <<>>
    /\ pc' = "loop"
    /\ UNCHANGED <<target, prompt, retries, attempt, result, sent>>

\* variant: the decode failure is recorded as an extraction error
DecodeErr_as_extraction ==
    /\ pc = "decoding"
    /\ \E e \in DeErrors :
        /\ chat_req' = Append(Append(chat_req, DecodeDiagnostic(xml_content, e)),
                              ExampleMessage)
        /\ errs' = Append(errs, XmlExtraction(ExtractionText))
        /\ log' = Append(log, Round("decode_err", xml_content, e))
    /\ res' = NoReply
    /\ xml_content' = <<>>
    /\ pc' = "loop"
    /\ UNCHANGED <<target, prompt, retries, attempt, result, sent>>

\* lines 80-90: the payload does not decode
DecodeErr ==
    /\ pc = "decoding"
    /\ \E e \in DeErrors :
        /\ chat_req' = Append(Append(chat_req, DecodeDiagnostic(xml_content, e)),
                              ExampleMessage)
        /\ errs' = Append(errs, XmlDeserialization(e))
        /\ log' = Append(log, Round("decode_err", xml_content, e))
    /\ res' = NoReply
    /\ xml_content' = <<>>
    /\ pc' = "loop"
    /\ UNCHANGED <<target, prompt, retries, attempt, result, sent>>

Next ==
    \/ Start /\ UNCHANGED <<dvars, rvars>>
    \/ Send /\ UNCHANGED <<dvars, rvars>>
    \/ Exhausted /\ UNCHANGED <<dvars, rvars>>
    \/ ExecChatErr /\ UNCHANGED <<dvars, rvars>>
    \/ ExecChatOk /\ UNCHANGED <<dvars, rvars>>
    \/ SkipNoText /\ UNCHANGED <<dvars, rvars>>
    \/ RootMissing /\ UNCHANGED <<dvars, rvars>>
    \/ SlicePanic /\ UNCHANGED <<dvars, rvars>>
    \/ Locate /\ UNCHANGED <<dvars, rvars>>
    \/ DecodeOk /\ UNCHANGED <<dvars, rvars>>
    \/ DecodeErr /\ UNCHANGED <<dvars, rvars>>

Spec == Init /\ [][Next]_allvars

SpecVariant == VariantInit /\ [][Next]_allvars

(* ============================ properties ============================== *)

IsPrefix(s, t) == Len(s) <= Len(t) /\ SubSeq(t, 1, Len(s)) = s
Contains(text, part) == \E i \in 0..(Len(text) - Len(part)) :
                            SubSeq(text, i + 1, i + Len(part)) = part

Failed(r) == r.outcome \in {"missing", "decode_err"}
FailedRounds == SelectSeq(log, Failed)
\* the number of failed rounds among the first n rounds
FailedBefore(n) == Cardinality({i \in 1..n : i <= Len(log) /\ Failed(log[i])})

\* position in the conversation of the diagnostic of the j-th failed round
DiagAt(j) == Len(prompt) + 1 + 2 * j - 1
ExampleAt(j) == Len(prompt) + 1 + 2 * j

IsExample(m) ==
    /\ m.role = "assistant"
    /\ m.content = <<"Here is a valid example for your reference:\n">> \o valid_example

IsDiagnosticOf(m, r) ==
    /\ m.role = "assistant"
    /\ Contains(m.content, get_prompt_schema)
    /\ IF r.outcome = "missing"
       THEN Contains(m.content, <<"The error was: cannot find the root ">> \o root_name
                                \o <<" of the structure\nPlease ensure your response strictly follows the required XML format.\n The format body is: ">>)
       ELSE /\ Contains(m.content, <<"The last time you responded, the XML content was: ">>
                                   \o r.payload \o <<"\nThe error was: ">> \o <<r.e>>)

(* C1: whatever text the completion client returns, a round never panics:   *)
(* it ends in decode success, a recorded XmlExtraction error or a recorded  *)
(* XmlDeserialization error.                                                *)
C1_NeverPanics ==
    /\ pc # "panicked"
    /\ \A i \in 1..Len(log) : log[i].outcome # "panic"

(* C2: if every reply carries text, rounds 1..k fail and round k+1 decodes, *)
(* the call returns Ok after exactly k+1 sends, and the conversation holds  *)
(* exactly 2k corrective messages, (diagnostic, example) per failed round.  *)
C2_RetryConvergence ==
    (/\ pc = "done"
     /\ log # <<>>
     /\ log[Len(log)].outcome = "ok"
     /\ \A i \in 1..(Len(log) - 1) : Failed(log[i]))
    => LET k == Len(log) - 1 IN
       /\ k < retries
       /\ result \in {Ok(v) : v \in Values}
       /\ Len(sent) = k + 1
       /\ attempt = k + 1
       /\ Len(chat_req) = Len(prompt) + 1 + 2 * k
       /\ \A j \in 1..k : /\ IsDiagnosticOf(chat_req[DiagAt(j)], log[j])
                          /\ IsExample(chat_req[ExampleAt(j)])

C2_Witness ==
    /\ pc = "done"
    /\ result.kind = "Ok"
    /\ Len(log) = 2
    /\ log[1].outcome = "decode_err"
    /\ log[1].payload = start_tag \o <<"a">> \o end_tag
    /\ Len(sent) = 2
    /\ Len(chat_req) = Len(prompt) + 3

(* C3: if every reply carries text and every round fails, the call returns  *)
(* RetryLimitExceeded with exactly retries errors in round order, after     *)
(* exactly retries sends.                                                   *)
C3_BudgetExhaustion ==
    (pc = "done" /\ \A i \in 1..Len(log) : Failed(log[i]))
    => /\ result.kind = "Err"
       /\ result.err.kind = "RetryLimitExceeded"
       /\ Len(result.err.errs) = retries
       /\ Len(log) = retries
       /\ Len(sent) = retries
       /\ \A i \in 1..retries :
            IF log[i].outcome = "missing"
            THEN result.err.errs[i].kind = "XmlExtraction"
            ELSE /\ result.err.errs[i].kind = "XmlDeserialization"
                 /\ result.err.errs[i].source = log[i].e

C3_Witness ==
    /\ pc = "done"
    /\ retries = 2
    /\ Len(log) = 2
    /\ log[1].outcome = "decode_err"
    /\ log[2].outcome = "missing"
    /\ Len(result.err.errs) = 2

(* C4: a transport failure ends the call at once with the ChatRequest       *)
(* error: it is the last round, no later send is made and the conversation  *)
(* is still the one that was sent, however many errors were recorded before.*)
C4_TransportNotRetried ==
    \A i \in 1..Len(log) :
        log[i].outcome = "transport"
        => /\ i = Len(log)
           /\ pc = "done"
           /\ result = Err(ChatRequestError)
           /\ Len(sent) = i
           /\ chat_req = sent[i]
           /\ Len(errs) = FailedBefore(i - 1)

C4_Witness ==
    /\ Len(log) = 2
    /\ log[2].outcome = "transport"
    /\ Len(errs) = 1
    /\ result.kind = "Err"

(* C5: a reply without text leaves the conversation and the error list      *)
(* unchanged, so the errors returned in RetryLimitExceeded are one per      *)
(* round that returned text and failed, none for a skipped round.           *)
C5_SkippedRoundLeavesNoTrace ==
    /\ \A i \in 1..Len(log) :
          log[i].outcome = "no_text"
          => IF i < Len(sent) THEN sent[i + 1] = sent[i] ELSE chat_req = sent[i]
    /\ Len(errs) = Len(FailedRounds)
    /\ (result.kind = "Err" /\ result.err.kind = "RetryLimitExceeded")
       => /\ result.err.errs = errs
          /\ Len(result.err.errs) = Len(FailedRounds)

C5_Witness ==
    /\ result.kind = "Err"
    /\ result.err.kind = "RetryLimitExceeded"
    /\ Len(log) = 2
    /\ log[1].outcome = "no_text"
    /\ log[2].outcome = "decode_err"
    /\ Len(result.err.errs) = 1

\* the spans of text that start at a start tag with no start tag before it
\* and end with an end tag with no end tag after it
OutermostSpans(text) ==
    {SubSeq(text, a + 1, b) :
        <<a, b>> \in {ab \in (0..Len(text)) \X (0..Len(text)) :
            /\ ab[1] + Len(start_tag) <= Len(text)
            /\ SubSeq(text, ab[1] + 1, ab[1] + Len(start_tag)) = start_tag
            /\ \A c \in 0..(ab[1] - 1) :
                   c + Len(start_tag) <= Len(text)
                   => SubSeq(text, c + 1, c + Len(start_tag)) # start_tag
            /\ ab[2] >= Len(end_tag)
            /\ SubSeq(text, ab[2] - Len(end_tag) + 1, ab[2]) = end_tag
            /\ \A d \in (ab[2] + 1)..Len(text) :
                   d >= Len(end_tag)
                   => SubSeq(text, d - Len(end_tag) + 1, d) # end_tag}}

(* C6: the payload handed to the decoder is the span of the reply from the  *)
(* first start tag to the end of the last end tag, both tags included.      *)
C6_OutermostSpan ==
    pc = "decoding"
    => /\ res.kind = "text"
       /\ Contains(res.text, start_tag)
       /\ Contains(res.text, end_tag)
       /\ OutermostSpans(res.text) = {xml_content}

C6_Witness ==
    /\ pc = "decoding"
    /\ res.text = start_tag \o end_tag \o end_tag
    /\ xml_content = res.text

\* a step that finishes a failed round
FailedStep ==
    /\ Len(log') = Len(log) + 1
    /\ Failed(log'[Len(log')])

(* C7: every failed round appends exactly two assistant messages and        *)
(* nothing else: the diagnostic (missing root, or payload and decoder       *)
(* error) with the schema text, then the valid example; the loop goes on.   *)
(* No other step of the loop touches the conversation.                      *)
C7_CorrectiveMessages ==
    [][pc # "entry"
       => IF FailedStep
          THEN LET r == log'[Len(log')]
                   n == Len(chat_req)
               IN /\ Len(chat_req') = n + 2
                  /\ SubSeq(chat_req', 1, n) = chat_req
                  /\ IsDiagnosticOf(chat_req'[n + 1], r)
                  /\ r.outcome = "missing"
                     => /\ pc = "got"
                        /\ ~(Contains(res.text, start_tag) /\ Contains(res.text, end_tag))
                  /\ r.outcome = "decode_err" => pc = "decoding" /\ r.payload = xml_content
                  /\ IsExample(chat_req'[n + 2])
                  /\ pc' = "loop"
                  /\ result' = result
          ELSE chat_req' = chat_req]_vars

C7_Witness ==
    /\ pc = "loop"
    /\ Len(log) = 2
    /\ log[1].outcome = "missing"
    /\ log[2].outcome = "decode_err"
    /\ log[2].payload = start_tag \o <<"a">> \o end_tag
    /\ Len(chat_req) = Len(prompt) + 5

(* C8 as stated: the error recorded for a payload that failed to decode     *)
(* carries the sliced payload and the decoder message.                      *)
C8_ErrorCarriesPayloadAndMessage ==
    (result.kind = "Err" /\ result.err.kind = "RetryLimitExceeded")
    => \A j \in 1..Len(FailedRounds) :
          FailedRounds[j].outcome = "decode_err"
          => /\ result.err.errs[j].kind = "XmlDeserialization"
             /\ result.err.errs[j].source = FailedRounds[j].e
             /\ "xml_content" \in DOMAIN result.err.errs[j]
             /\ result.err.errs[j].xml_content = FailedRounds[j].payload

(* C8 amended: the error recorded for a payload that failed to decode       *)
(* carries the decoder error and nothing else; the sliced payload is kept   *)
(* only in the diagnostic message appended to the conversation.             *)
C8_ErrorCarriesDecoderMessage ==
    (result.kind = "Err" /\ result.err.kind = "RetryLimitExceeded")
    => /\ Len(result.err.errs) = Len(FailedRounds)
       /\ \A j \in 1..Len(FailedRounds) :
             FailedRounds[j].outcome = "decode_err"
             => /\ result.err.errs[j].kind = "XmlDeserialization"
                /\ result.err.errs[j].source = FailedRounds[j].e
                /\ DOMAIN result.err.errs[j] = {"kind", "source"}
                /\ Contains(chat_req[DiagAt(j)].content, FailedRounds[j].payload)

C8_Witness ==
    /\ result.kind = "Err"
    /\ result.err.kind = "RetryLimitExceeded"
    /\ Len(FailedRounds) = 2
    /\ FailedRounds[2].outcome = "decode_err"
    /\ FailedRounds[2].payload = start_tag \o <<"a">> \o end_tag
    /\ result.err.errs[2].kind = "XmlDeserialization"

(* C9: the conversation is append-only: it always starts with the caller's  *)
(* seed, then (once built) the system instruction naming the root tag and   *)
(* the schema text, and every step extends it by appended messages only.    *)
C9_AppendOnly ==
    /\ [](/\ IsPrefix(prompt, chat_req)
          /\ pc # "entry"
             => /\ Len(chat_req) >= Len(prompt) + 1
                /\ chat_req[Len(prompt) + 1].role = "system"
                /\ Contains(chat_req[Len(prompt) + 1].content, root_name)
                /\ Contains(chat_req[Len(prompt) + 1].content, get_prompt_schema)
                /\ \A i \in (Len(prompt) + 2)..Len(chat_req) :
                       chat_req[i].role = "assistant")
    /\ [][IsPrefix(chat_req, chat_req') /\ prompt' = prompt]_vars

C9_Witness ==
    /\ Len(prompt) >= 1
    /\ Len(chat_req) = Len(prompt) + 5
    /\ pc = "done"

\* the conversation after the first n rounds, rebuilt from their outcomes
RECURSIVE ConversationAfter(_)
ConversationAfter(n) ==
    IF n = 0 THEN prompt \o <<SystemInstruction>>
    ELSE IF log[n].outcome = "missing"
         THEN ConversationAfter(n - 1) \o <<MissingRootDiagnostic, ExampleMessage>>
    ELSE IF log[n].outcome = "decode_err"
         THEN ConversationAfter(n - 1)
              \o <<DecodeDiagnostic(log[n].payload, log[n].e), ExampleMessage>>
    ELSE ConversationAfter(n - 1)

(* C10: rounds are sequential: the conversation sent in round k+1 is the    *)
(* seed, the instruction and the (diagnostic, example) pair of every failed *)
(* round up to k, in order; its length is Len(seed) + 1 + 2 * errors so     *)
(* far; a round is sent only when the round before it has finished.         *)
C10_SequentialRounds ==
    /\ Len(sent) = attempt
    /\ Len(log) <= Len(sent)
    /\ Len(sent) <= Len(log) + 1
    /\ pc \in {"await", "got", "decoding"} <=> Len(sent) = Len(log) + 1
    /\ \A i \in 1..Len(sent) :
          /\ sent[i] = ConversationAfter(i - 1)
          /\ Len(sent[i]) = Len(prompt) + 1 + 2 * FailedBefore(i - 1)
    /\ pc = "await" => /\ sent[Len(sent)] = chat_req
                       /\ Len(chat_req) = Len(prompt) + 1 + 2 * Len(errs)

C10_Witness ==
    /\ pc = "await"
    /\ Len(sent) = 2
    /\ Len(errs) = 1
    /\ Len(sent[1]) = Len(prompt) + 1
    /\ Len(sent[2]) = Len(prompt) + 3

(* C27: the number of sends never exceeds retries, whatever the replies:   *)
(* a reply without text uses up its round, so a call in which no reply    *)
(* has text returns RetryLimitExceeded with an empty error list after     *)
(* exactly retries sends, and with retries = 0 it does so without a send. *)
C27_SendsWithinBudget ==
    /\ Len(sent) <= retries
    /\ Len(log) <= retries
    /\ (pc = "done" /\ \A i \in 1..Len(log) : log[i].outcome = "no_text")
       => /\ result = Err(RetryLimitExceeded(<< >>))
          /\ Len(sent) = retries
          /\ Len(log) = retries
    /\ retries = 0 => /\ sent = << >>
                      /\ pc \in {"entry", "loop", "done"}
                      /\ pc = "done" => result = Err(RetryLimitExceeded(<< >>))

\* every one of the MaxRetries replies had no text and the call is over
C27_Witness ==
    /\ pc = "done"
    /\ retries = MaxRetries
    /\ Len(log) = retries
    /\ \A i \in 1..Len(log) : log[i].outcome = "no_text"
    /\ Len(sent) = retries
    /\ result = Err(RetryLimitExceeded(<< >>))

\* the reply in hand has both boundaries of the payload
HasBoundaries(text) == Contains(text, start_tag) /\ Contains(text, end_tag)

C29_NotLocated ==
    (pc = "got" /\ res.kind = "text" /\ ~HasBoundaries(res.text))
    => /\ pc' = "loop"
       /\ errs' = Append(errs, XmlExtraction(<<"cannot find the root ">> \o <<" of the structure">>))
       /\ result' = Pending

(* C29: the root tag of an enum is the empty string, so the boundaries    *)
(* searched are <> and </>. A reply that is a document of the enum, such  *)
(* as <Simple/>, has neither; every round with a reply lacking one of the *)
(* boundaries records XmlExtraction, and the call returns Ok only for a   *)
(* reply that holds both <> and </>.                                      *)
C29_VariantRootIsEmpty ==
    /\ [](/\ root_name = << >>
          /\ start_tag = <<"<", ">">>
          /\ end_tag = <<"<", "/", ">">>
          /\ ~Contains(VariantDocument, start_tag)
          /\ ~Contains(VariantDocument, end_tag)
          /\ (pc = "done" /\ result.kind = "Ok")
             => (HasBoundaries(res.text) /\ res.text # VariantDocument))
    /\ [][C29_NotLocated]_allvars

\* every reply was a document of the enum and the budget is used up
C29_Witness ==
    /\ target = "enum"
    /\ pc = "done"
    /\ retries = MaxRetries
    /\ result.kind = "Err"
    /\ result.err.kind = "RetryLimitExceeded"
    /\ Len(result.err.errs) = retries
    /\ \A i \in 1..retries :
          result.err.errs[i] = XmlExtraction(<<"cannot find the root ">> \o <<" of the structure">>)
    /\ chat_req[Len(chat_req)].content =
          <<"Here is a valid example for your reference:\n">> \o VariantDocument

(* ====================== value coercion parsers ======================== *)
(* src/src/type/bool.rs and the numeric parsers that the macro of         *)
(* src/src/type/macro.rs generates for the kinds of integer.rs.           *)

MaxPad == 1
Spread == 1

Whitespace == {" ", "\n"}

RECURSIVE trim_start(_)
trim_start(s) ==
    IF s # << >> /\ Head(s) \in Whitespace THEN trim_start(Tail(s)) ELSE s

RECURSIVE trim_end(_)
trim_end(s) ==
    IF s # << >> /\ s[Len(s)] \in Whitespace
    THEN trim_end(SubSeq(s, 1, Len(s) - 1))
    ELSE s

\* str::trim
trim(s) == trim_end(trim_start(s))

UpperLetters == <<"A", "B", "C", "D", "E", "F", "G", "H", "I", "J", "K", "L", "M",
                  "N", "O", "P", "Q", "R", "S", "T", "U", "V", "W", "X", "Y", "Z">>
LowerLetters == <<"a", "b", "c", "d", "e", "f", "g", "h", "i", "j", "k", "l", "m",
                  "n", "o", "p", "q", "r", "s", "t", "u", "v", "w", "x", "y", "z">>

lower_char(c) ==
    IF \E i \in 1..Len(UpperLetters) : UpperLetters[i] = c
    THEN LowerLetters[CHOOSE i \in 1..Len(UpperLetters) : UpperLetters[i] = c]
    ELSE c

upper_char(c) ==
    IF \E i \in 1..Len(LowerLetters) : LowerLetters[i] = c
    THEN UpperLetters[CHOOSE i \in 1..Len(LowerLetters) : LowerLetters[i] = c]
    ELSE c

\* str::to_lowercase
to_lowercase(s) == [i \in 1..Len(s) |-> lower_char(s[i])]

(* The two word lists of custom_bool_parser. The two CJK words are single *)
(* characters, written here by their code points.                         *)
TrueWords ==
    { <<"t", "r", "u", "e">>, <<"1">>, <<"y", "e", "s">>, <<"y">>, <<"t">>,
      <<"o", "n">>, <<"U+771F">>, <<"c", "h", "e", "c", "k", "e", "d">>,
      <<"s", "e", "l", "e", "c", "t", "e", "d">> }

FalseWords ==
    { <<"f", "a", "l", "s", "e">>, <<"0">>, <<"n", "o">>, <<"n">>, <<"f">>,
      <<"o", "f", "f">>, <<"U+5047">>, <<"n", "u", "l", "l">>,
      <<"n", "o", "n", "e">>, << >> }

BoolError(clean_s) ==
    <<"can not parse '">> \o clean_s \o <<"' as a boolean value">>

\* variant: a token that starts with a listed word is taken for that word
custom_bool_parser_prefix(s) ==
    LET clean_s == to_lowercase(trim(s)) IN
    IF \E w \in TrueWords : w # << >> /\ IsPrefix(w, clean_s) THEN Ok(TRUE)
    ELSE IF \E w \in FalseWords : clean_s = w \/ (w # << >> /\ IsPrefix(w, clean_s))
         THEN Ok(FALSE)
         ELSE Err(BoolError(clean_s))

\* bool.rs lines 4-22
custom_bool_parser(s) ==
    LET clean_s == to_lowercase(trim(s)) IN
    IF clean_s \in TrueWords THEN Ok(TRUE)
    ELSE IF clean_s \in FalseWords THEN Ok(FALSE)
         ELSE Err(BoolError(clean_s))

(* ----------------------------- numeric kinds --------------------------- *)

IntKinds == {"i8", "i16", "i32", "i64", "i128", "u8", "u16", "u32", "u64", "u128"}
FloatKinds == {"f32", "f64"}
\* the target kinds whose whole range the model's integers hold
TargetKinds == {"i8", "u8", "i16", "u16"}

Signed(k) == k \in {"i8", "i16", "i32", "i64", "i128"}

Width(k) ==
    CASE k \in {"i8", "u8"} -> 8
      [] k \in {"i16", "u16"} -> 16
      [] k \in {"i32", "u32", "f32"} -> 32
      [] k \in {"i64", "u64", "f64"} -> 64
      [] k \in {"i128", "u128"} -> 128

MinOf(k) == IF Signed(k) THEN -(2 ^ (Width(k) - 1)) ELSE 0
MaxOf(k) == IF Signed(k) THEN 2 ^ (Width(k) - 1) - 1 ELSE 2 ^ Width(k) - 1

\* whether a node of kind k can hold the integer v (the wide kinds hold
\* every integer of the model, up to its sign)
Holds(k, v) ==
    IF k \in TargetKinds THEN MinOf(k) <= v /\ v <= MaxOf(k)
    ELSE Signed(k) \/ v >= 0

(* A native numeric node: an integer node carries its value v, a float    *)
(* node carries h, twice its value, so that halves are exact.             *)
IntNode(k, v) == [kind |-> k, v |-> v]
FloatNode(k, h) == [kind |-> k, h |-> h]

\* integer to integer: the low Width bits, the top bit read as the sign
wrapping_cast(ty, v) ==
    LET m == 2 ^ Width(ty)
        r == v % m
    IN  IF Signed(ty) /\ r >= m \div 2 THEN r - m ELSE r

\* variant: an out-of-range integer is clamped to the nearest bound
saturating_cast(ty, v) ==
    IF v < MinOf(ty) THEN MinOf(ty) ELSE IF v > MaxOf(ty) THEN MaxOf(ty) ELSE v

\* float to integer: the fraction is dropped, out of range is clamped
float_cast(ty, h) ==
    LET t == IF h >= 0 THEN h \div 2 ELSE -((-h) \div 2)
    IN  IF t < MinOf(ty) THEN MinOf(ty) ELSE IF t > MaxOf(ty) THEN MaxOf(ty) ELSE t

\* variant of as_cast: integers are clamped instead of wrapped
as_cast_saturating(ty, node) ==
    IF node.kind \in FloatKinds THEN float_cast(ty, node.h)
    ELSE saturating_cast(ty, node.v)

\* v as $ty
as_cast(ty, node) ==
    IF node.kind \in FloatKinds THEN float_cast(ty, node.h)
    ELSE wrapping_cast(ty, node.v)

\* macro.rs lines 23-36: visit_i8 .. visit_u128, visit_f32, visit_f64
visit_native(ty, node) == Ok(as_cast(ty, node))

Digits == <<"0", "1", "2", "3", "4", "5", "6", "7", "8", "9">>
IsDigit(c) == \E i \in 1..Len(Digits) : Digits[i] = c
DigitValue(c) == (CHOOSE i \in 1..Len(Digits) : Digits[i] = c) - 1

RECURSIVE digits_value(_)
digits_value(s) ==
    IF s = << >> THEN 0
    ELSE digits_value(SubSeq(s, 1, Len(s) - 1)) * Len(Digits) + DigitValue(s[Len(s)])

RECURSIVE strip_zeros(_)
strip_zeros(s) ==
    IF Len(s) > 1 /\ Head(s) = "0" THEN strip_zeros(Tail(s)) ELSE s

(* The digits of a literal read as a value of kind ty, negated if neg. A  *)
(* literal with more than Width/2 significant digits is out of range for  *)
(* the 8 and 16 bit kinds; it is rejected before its value is computed.   *)
parse_digits(ty, neg, body) ==
    IF /\ body # << >>
       /\ \A i \in 1..Len(body) : IsDigit(body[i])
       /\ Len(strip_zeros(body)) <= Width(ty) \div 2
       /\ LET n == IF neg THEN -digits_value(body) ELSE digits_value(body)
          IN  MinOf(ty) <= n /\ n <= MaxOf(ty)
    THEN Ok(IF neg THEN -digits_value(body) ELSE digits_value(body))
    ELSE Err("invalid")

\* variant of lexical_parse: a sign is not part of a number
lexical_parse_unsigned(ty, bytes) == parse_digits(ty, FALSE, bytes)

(* lexical_core::parse::<$ty>: an optional sign (minus only for a signed  *)
(* kind), then one or more digits and nothing else; a value outside the   *)
(* kind is an error.                                                      *)
lexical_parse(ty, bytes) ==
    LET neg == bytes # << >> /\ Head(bytes) = "-"
        pos == bytes # << >> /\ Head(bytes) = "+"
    IN  IF neg /\ ~Signed(ty) THEN Err("invalid")
        ELSE parse_digits(ty, neg, IF neg \/ pos THEN Tail(bytes) ELSE bytes)

NumericError(v, ty) ==
    <<"can not parse '">> \o v \o <<"' as a ">> \o <<ty>> \o <<" value">>

\* macro.rs lines 38-45: visit_str
visit_str(ty, v) ==
    LET val_str == trim(v)
        parsed == lexical_parse(ty, val_str)
    IN  IF parsed.kind = "Ok" THEN parsed ELSE Err(NumericError(v, ty))

(* ------------------------- inputs of the parsers ----------------------- *)

RECURSIVE Paddings(_)
Paddings(n) ==
    IF n = 0 THEN {<< >>}
    ELSE Paddings(n - 1) \cup {<<c>> \o p : c \in Whitespace, p \in Paddings(n - 1)}

Padded(tokens) ==
    {l \o t \o r : l \in Paddings(MaxPad), r \in Paddings(MaxPad), t \in tokens}

Capitalised(w) == IF w = << >> THEN w ELSE <<upper_char(Head(w))>> \o Tail(w)
UpperCased(w) == [i \in 1..Len(w) |-> upper_char(w[i])]

\* the listed words in three spellings, and each of them with one more
\* character before or after it
BoolTokens ==
    LET words == TrueWords \cup FalseWords
        spelt == words \cup {Capitalised(w) : w \in words} \cup {UpperCased(w) : w \in words}
        longer == {w \o <<"s">> : w \in spelt} \cup {<<"x">> \o w : w \in spelt}
    IN  Padded(spelt \cup longer)

\* the values around zero and around the ends of the 8 and 16 bit kinds
NumValues ==
    LET edges == {0} \cup {MinOf(k) : k \in TargetKinds} \cup {MaxOf(k) + 1 : k \in TargetKinds}
    IN  {e + d : e \in edges, d \in (-Spread)..Spread}

Nodes ==
    {IntNode(k, v) : k \in IntKinds, v \in NumValues} \cup
    {FloatNode(k, h) : k \in FloatKinds, h \in {2 * v : v \in NumValues} \cup {2 * v + 1 : v \in NumValues}}

HeldNodes == {n \in Nodes : n.kind \in FloatKinds \/ Holds(n.kind, n.v)}

RECURSIVE to_digits(_)
to_digits(n) ==
    IF n < Len(Digits) THEN <<Digits[n + 1]>>
    ELSE to_digits(n \div Len(Digits)) \o <<Digits[(n % Len(Digits)) + 1]>>

\* Display of a number: the decimal digits, a minus sign if negative, the
\* fraction of a float only if it has one
to_string(node) ==
    IF node.kind \in FloatKinds
    THEN LET a == IF node.h < 0 THEN -node.h ELSE node.h IN
         (IF node.h < 0 THEN <<"-">> ELSE << >>) \o to_digits(a \div 2)
         \o (IF a % 2 = 1 THEN <<".", "5">> ELSE << >>)
    ELSE (IF node.v < 0 THEN <<"-">> ELSE << >>)
         \o to_digits(IF node.v < 0 THEN -node.v ELSE node.v)

NotNumbers ==
    { << >>, <<"a", "b", "c">>, <<"1", "2", "x">>, <<"-">>, <<"1", " ", "2">>,
      <<"0", "0", "7">>, <<"+", "5">> }

NumTexts == Padded({to_string(n) : n \in HeldNodes} \cup NotNumbers)

CoercionInputs ==
    {[op |-> "bool", text |-> t] : t \in BoolTokens} \cup
    {[op |-> "native", ty |-> ty, node |-> n] : ty \in TargetKinds, n \in HeldNodes} \cup
    {[op |-> "str", ty |-> ty, text |-> t] : ty \in TargetKinds, t \in NumTexts}

CoercionInit ==
    /\ din \in CoercionInputs
    /\ dout = Pending
    /\ SessionIdle
    /\ RegistryIdle

\* custom_bool_parser is called on a text node
CoerceBool ==
    /\ din.op = "bool"
    /\ dout = Pending
    /\ dout' = custom_bool_parser(din.text)
    /\ UNCHANGED <<din, vars, rvars>>

\* the deserializer hands the visitor a native numeric node
VisitNative ==
    /\ din.op = "native"
    /\ dout = Pending
    /\ dout' = visit_native(din.ty, din.node)
    /\ UNCHANGED <<din, vars, rvars>>

\* the deserializer hands the visitor a text token
VisitStr ==
    /\ din.op = "str"
    /\ dout = Pending
    /\ dout' = visit_str(din.ty, din.text)
    /\ UNCHANGED <<din, vars, rvars>>

CoercionNext ==
    \/ CoerceBool
    \/ VisitNative
    \/ VisitStr

SpecCoercion == CoercionInit /\ [][CoercionNext]_allvars

(* ---------------------- properties of the parsers ---------------------- *)

C18_NamedTrue ==
    { <<"t", "r", "u", "e">>, <<"1">>, <<"y", "e", "s">>, <<"y">>, <<"t">>, <<"o", "n">> }

C18_NamedFalse ==
    { <<"f", "a", "l", "s", "e">>, <<"0">>, <<"n", "o">>, <<"n">>, <<"f">>,
      <<"o", "f", "f">>, <<"n", "u", "l", "l">>, <<"n", "o", "n", "e">>, << >> }

(* C18: custom_bool_parser partitions its input tokens. A token that,     *)
(* trimmed and lower-cased, is a word of the true bucket (true, 1, yes,   *)
(* y, t, on and the locale and UI affirmatives) gives true; a word of the *)
(* false bucket (false, 0, no, n, f, off, null, none, the locale negative *)
(* and the empty string) gives false; the buckets are disjoint; every     *)
(* other token, one that contains or extends a bucket word included,      *)
(* gives an error.                                                        *)
C18_BoolBuckets ==
    /\ TrueWords \cap FalseWords = {}
    /\ C18_NamedTrue \subseteq TrueWords
    /\ C18_NamedFalse \subseteq FalseWords
    /\ (din.op = "bool" /\ dout # Pending) =>
        LET token == to_lowercase(trim(din.text)) IN
        /\ token \in TrueWords => dout = Ok(TRUE)
        /\ token \in FalseWords => dout = Ok(FALSE)
        /\ token \notin TrueWords \cup FalseWords => dout.kind = "Err"

\* a padded, capitalised token that extends a word of the true bucket has
\* been refused
C18_Witness ==
    /\ din.op = "bool"
    /\ dout.kind = "Err"
    /\ din.text # trim(din.text)
    /\ trim(din.text) # to_lowercase(trim(din.text))
    /\ \E w \in C18_NamedTrue : IsPrefix(w, to_lowercase(trim(din.text)))

\* the value of the node is one the target kind has
Representable(ty, node) ==
    IF node.kind \in FloatKinds
    THEN node.h % 2 = 0 /\ MinOf(ty) <= node.h \div 2 /\ node.h \div 2 <= MaxOf(ty)
    ELSE MinOf(ty) <= node.v /\ node.v <= MaxOf(ty)

MaxItems == 2

Text(t) == [k |-> "text", text |-> t]
Elems(kids) == [k |-> "elems", kids |-> kids]
Elem(tag, body) == [tag |-> tag, body |-> body]

KidsOf(c) == IF c.k = "elems" THEN c.kids ELSE << >>
Tagged(c, tag) == SelectSeq(KidsOf(c), LAMBDA e : e.tag = tag)

(* types *)
Num(name) == [k |-> "num", name |-> name]
Bool == [k |-> "bool"]
Str == [k |-> "String"]
VecOf(a) == [k |-> "Vec", a |-> a]
OptionOf(a) == [k |-> "Option", a |-> a]
HashMapOf(key, val) == [k |-> "HashMap", key |-> key, val |-> val]
BTreeMapOf(key, val) == [k |-> "BTreeMap", key |-> key, val |-> val]
StructOf(name) == [k |-> "struct", name |-> name]
EnumOf(name) == [k |-> "enum", name |-> name]

Field(name, ty) == [name |-> name, ty |-> ty]

\* struct Inner { x: u8 }
StructFields(name) ==
    CASE name = "Inner" -> <<Field("x", Num("u8"))>>

\* enum Choice { A { x: u8 }, B }
EnumVariants(name) ==
    CASE name = "Choice" -> <<[name |-> "A", fields |-> <<Field("x", Num("u8"))>>],
                              [name |-> "B", fields |-> << >>]>>

(* values *)
NumV(n) == [num |-> n]
BoolV(b) == [bool |-> b]
StrV(s) == [str |-> s]
SeqV(items) == [seq |-> items]
MapV(pairs) == [map |-> pairs]
SomeV(v) == [some |-> v]
NoneV == [none |-> TRUE]
StructV(name, fields) == [struct |-> name, fields |-> fields]
VariantV(name, variant, fields) == [enum |-> name, variant |-> variant, fields |-> fields]

IsErr(r) == r.kind = "Err"
AnyErr(rs) == \E i \in 1..Len(rs) : IsErr(rs[i])
FirstErr(rs) == rs[Min({i \in 1..Len(rs) : IsErr(rs[i])})].err
ValuesOf(rs) == [i \in 1..Len(rs) |-> rs[i].value]

\* get_custom_parser returns a parser path for these types and None for
\* every other path type, a user-defined struct or enum
HasParser(ty) == ty.k \in {"num", "bool", "String", "Vec", "Option", "HashMap", "BTreeMap"}

is_option(ty) == ty.k = "Option"

\* variant: no field has a default
absent_field_required(ty) == Err(<<"missing field">>)

\* a missing tag: a field with the default attribute gets Option::default
absent_field(ty) ==
    IF is_option(ty) THEN Ok(NoneV) ELSE Err(<<"missing field">>)

\* variant: the earlier of two entries with one key is kept
collect_map_first(pairs) ==
    {pairs[i] : i \in {j \in 1..Len(pairs) :
                          \A l \in 1..(j - 1) : pairs[l][1] # pairs[j][1]}}

\* the later of two entries with one key replaces the earlier
collect_map(pairs) ==
    {pairs[i] : i \in {j \in 1..Len(pairs) :
                          \A l \in (j + 1)..Len(pairs) : pairs[l][1] # pairs[j][1]}}

VecError(e) ==
    <<"The XML structure is invalid. It must be a sequence of <item> elements, each containing the value. Details: ">> \o e
MapError(e) ==
    <<"The XML structure is invalid. The sequence must consist of <entry> elements, each containing a <key> and a <value>. Details: ">> \o e
OptionError(e) == <<"The XML structure is invalid. Reason: ">> \o e

RECURSIVE plain_decode(_, _)
RECURSIVE field_decode(_, _)
RECURSIVE derive_struct(_, _)

\* one field of a derived struct: its tag is looked up among the children
field_result(f, c) ==
    LET found == Tagged(c, f.name) IN
    IF Len(found) = 0 THEN absent_field(f.ty)
    ELSE IF Len(found) > 1 THEN Err(<<"duplicate field">>)
    ELSE field_decode(f.ty, found[1].body)

\* the Deserialize that serde derives for a struct with these fields
derive_struct(fields, c) ==
    LET rs == [i \in 1..Len(fields) |-> field_result(fields[i], c)] IN
    IF AnyErr(rs) THEN Err(FirstErr(rs)) ELSE Ok(ValuesOf(rs))

\* variant: a tag that names no variant selects the first variant
derive_enum_fallback(name, c) ==
    LET kids == KidsOf(c)
        vs == EnumVariants(name)
    IN  IF Len(kids) = 1
        THEN LET v == IF \E i \in 1..Len(vs) : vs[i].name = kids[1].tag
                      THEN vs[CHOOSE i \in 1..Len(vs) : vs[i].name = kids[1].tag]
                      ELSE vs[1]
                 r == derive_struct(v.fields, kids[1].body)
             IN  IF IsErr(r) THEN r ELSE Ok(VariantV(name, v.name, r.value))
        ELSE Err(<<"unknown variant">>)

\* an externally tagged enum: the one child element names the variant
derive_enum(name, c) ==
    LET kids == KidsOf(c)
        vs == EnumVariants(name)
    IN  IF Len(kids) = 1 /\ \E i \in 1..Len(vs) : vs[i].name = kids[1].tag
        THEN LET v == vs[CHOOSE i \in 1..Len(vs) : vs[i].name = kids[1].tag]
                 r == derive_struct(v.fields, kids[1].body)
             IN  IF IsErr(r) THEN r ELSE Ok(VariantV(name, v.name, r.value))
        ELSE Err(<<"unknown variant">>)

\* from_str of a document of an enum: the root element names the variant
from_str_enum(name, doc) == derive_enum(name, Elems(<<doc>>))

(* T::deserialize for the types that the model puts inside a container   *)
(* or behind a field without a parser: an integer parsed from the text as *)
(* it stands, a bool by the decoder's own short list (of which the model  *)
(* has true, 1, false and 0; on and off are in no version of the list),   *)
(* a string, a derived struct or enum, an Option.                         *)
plain_decode(ty, c) ==
    CASE ty.k = "num" ->
            IF c.k = "text"
            THEN LET r == lexical_parse(ty.name, c.text) IN
                 IF IsErr(r) THEN Err(<<"invalid digit found in string">>)
                 ELSE Ok(NumV(r.value))
            ELSE Err(<<"invalid type">>)
      [] ty.k = "bool" ->
            IF c.k = "text" /\ c.text \in {<<"t", "r", "u", "e">>, <<"1">>}
            THEN Ok(BoolV(TRUE))
            ELSE IF c.k = "text" /\ c.text \in {<<"f", "a", "l", "s", "e">>, <<"0">>}
            THEN Ok(BoolV(FALSE))
            ELSE Err(<<"invalid boolean">>)
      [] ty.k = "String" ->
            IF c.k = "text" THEN Ok(StrV(c.text)) ELSE Err(<<"invalid type">>)
      [] ty.k = "struct" ->
            LET r == derive_struct(StructFields(ty.name), c) IN
            IF IsErr(r) THEN r ELSE Ok(StructV(ty.name, r.value))
      [] ty.k = "enum" -> derive_enum(ty.name, c)
      [] ty.k = "Option" ->
            LET r == plain_decode(ty.a, c) IN
            IF IsErr(r) THEN r ELSE Ok(SomeV(r.value))

\* variant: an item that does not decode is left out
custom_vector_parser_skipping(a, c) ==
    LET kids == KidsOf(c)
        rs == [i \in 1..Len(kids) |-> plain_decode(a, kids[i].body)]
    IN  IF (c.k = "text" /\ trim(c.text) # << >>)
           \/ \E i \in 1..Len(kids) : kids[i].tag # "item"
        THEN Err(VecError(<<"unknown field">>))
        ELSE Ok(SeqV(ValuesOf(SelectSeq(rs, LAMBDA r : ~IsErr(r)))))

\* variant: the items are collected last to first
custom_vector_parser_reversed(a, c) ==
    LET kids == KidsOf(c)
        rs == [i \in 1..Len(kids) |-> plain_decode(a, kids[Len(kids) + 1 - i].body)]
    IN  IF (c.k = "text" /\ trim(c.text) # << >>)
           \/ \E i \in 1..Len(kids) : kids[i].tag # "item"
        THEN Err(VecError(<<"unknown field">>))
        ELSE IF AnyErr(rs) THEN Err(VecError(FirstErr(rs)))
        ELSE Ok(SeqV(ValuesOf(rs)))

\* vector.rs lines 7-36: XmlSeq denies unknown fields, every item holds a T
custom_vector_parser(a, c) ==
    LET kids == KidsOf(c)
        rs == [i \in 1..Len(kids) |-> plain_decode(a, kids[i].body)]
    IN  IF (c.k = "text" /\ trim(c.text) # << >>)
           \/ \E i \in 1..Len(kids) : kids[i].tag # "item"
        THEN Err(VecError(<<"unknown field">>))
        ELSE IF AnyErr(rs) THEN Err(VecError(FirstErr(rs)))
        ELSE Ok(SeqV(ValuesOf(rs)))

\* one side, key or value, of an entry; only btreemap.rs holds the side
\* bare, so that serde lets a missing Option side be None
entry_side(ty, e, tag, bare) ==
    LET found == Tagged(e.body, tag) IN
    IF Len(found) = 0
    THEN IF bare /\ is_option(ty) THEN Ok(NoneV) ELSE Err(<<"missing field">>)
    ELSE IF Len(found) > 1 THEN Err(<<"duplicate field">>)
    ELSE plain_decode(ty, found[1].body)

map_parser(key, val, c, bare) ==
    LET es == Tagged(c, "entry")
        ks == [i \in 1..Len(es) |-> entry_side(key, es[i], "key", bare)]
        vs == [i \in 1..Len(es) |-> entry_side(val, es[i], "value", bare)]
        rs == [i \in 1..Len(es) |->
                 IF IsErr(ks[i]) THEN ks[i]
                 ELSE IF IsErr(vs[i]) THEN vs[i]
                 ELSE Ok(<<ks[i].value, vs[i].value>>)]
    IN  IF AnyErr(rs) THEN Err(MapError(FirstErr(rs)))
        ELSE Ok(MapV(collect_map(ValuesOf(rs))))

\* hashmap.rs lines 7-54
custom_hashmap_parser(key, val, c) == map_parser(key, val, c, FALSE)

\* btreemap.rs lines 6-47
custom_btreemap_parser(key, val, c) == map_parser(key, val, c, TRUE)

\* option.rs lines 8-25: the error of the inner decode is passed on
custom_option_parser(a, c) ==
    LET r == plain_decode(OptionOf(a), c) IN
    IF IsErr(r) THEN Err(OptionError(r.err)) ELSE r

(* The parser of a field, as get_custom_parser chooses it by the last     *)
(* segment of the field type.                                             *)
field_decode(ty, c) ==
    CASE ty.k = "num" ->
            IF c.k = "text"
            THEN LET r == visit_str(ty.name, c.text) IN
                 IF IsErr(r) THEN r ELSE Ok(NumV(r.value))
            ELSE Err(<<"invalid type">>)
      [] ty.k = "bool" ->
            IF c.k = "text"
            THEN LET r == custom_bool_parser(c.text) IN
                 IF IsErr(r) THEN r ELSE Ok(BoolV(r.value))
            ELSE Err(<<"invalid type">>)
      [] ty.k = "String" ->
            IF c.k = "text" THEN Ok(StrV(trim(c.text))) ELSE Err(<<"invalid type">>)
      [] ty.k = "Vec" -> custom_vector_parser(ty.a, c)
      [] ty.k = "HashMap" -> custom_hashmap_parser(ty.key, ty.val, c)
      [] ty.k = "BTreeMap" -> custom_btreemap_parser(ty.key, ty.val, c)
      [] ty.k = "Option" ->
            IF HasParser(ty.a)
            THEN LET r == field_decode(ty.a, c) IN
                 IF IsErr(r) THEN Ok(NoneV) ELSE Ok(SomeV(r.value))
            ELSE custom_option_parser(ty.a, c)
      [] ty.k \in {"struct", "enum"} -> plain_decode(ty, c)

\* struct Holder { f: T }, the struct around the field
HolderFields(ty) == <<Field("f", ty)>>

(* ------------------------ inputs of the decoders ----------------------- *)

RECURSIVE SeqsUpTo(_, _)
SeqsUpTo(S, n) ==
    IF n = 0 THEN {<< >>}
    ELSE SeqsUpTo(S, n - 1) \cup {Append(q, x) : q \in SeqsUpTo(S, n - 1), x \in S}

Thirty == <<"3", "0">>
Junk == <<"a", "b", "c">>

NumDocs == {Text(Thirty), Text(<<" ", "7", " ">>), Text(Junk), Text(<<"3", "0", "0">>)}
BoolDocs == {Text(<<"y", "e", "s">>), Text(<<"t", "r", "u", "e">>), Text(<<"m", "a", "y", "b", "e">>)}
StrDocs == {Text(<<"h", "i">>), Text(<<" ", "h", "i", " ">>)}

\* the boolean token on is accepted for a direct field, maybe is not
On == <<"o", "n">>

ItemKids(a) ==
    IF a.k = "bool"
    THEN {Elem("item", Text(On)), Elem("item", Text(<<"t", "r", "u", "e">>)),
          Elem("item", Text(<<"m", "a", "y", "b", "e">>))}
    ELSE {Elem("item", Text(Thirty)), Elem("item", Text(<<"7">>)), Elem("item", Text(Junk)),
          Elem("itm", Text(Thirty))}
VecDocs(a) == {Elems(q) : q \in SeqsUpTo(ItemKids(a), MaxItems)} \cup {Text(<< >>)}

EntryOf(key, value) == Elem("entry", Elems(<<Elem("key", Text(key)), Elem("value", Text(value))>>))

EntryKids(val) ==
    IF val.k = "bool"
    THEN {EntryOf(<<"1">>, On), EntryOf(<<"2">>, <<"t", "r", "u", "e">>)}
    ELSE { EntryOf(<<"1">>, Thirty), EntryOf(<<"1">>, <<"7">>), EntryOf(<<"2">>, <<"7">>),
           Elem("entry", Elems(<<Elem("value", Text(Thirty))>>)),
           Elem("entry", Elems(<<Elem("key", Text(<<"1">>))>>)),
           EntryOf(Junk, Thirty), EntryOf(<<"1">>, Junk) }
MapDocs(val) == {Elems(q) : q \in SeqsUpTo(EntryKids(val), MaxItems)}

InnerDocs ==
    { Elems(<<Elem("x", Text(Thirty))>>), Elems(<<Elem("x", Text(Junk))>>),
      Elems(<<Elem("y", Text(Thirty))>>), Text(Junk) }

ChoiceDocs ==
    { Elems(<<Elem("A", Elems(<<Elem("x", Text(Thirty))>>))>>),
      Elems(<<Elem("A", Elems(<<Elem("x", Text(Junk))>>))>>),
      Elems(<<Elem("B", Text(<< >>))>>),
      Elems(<<Elem("Z", Text(<< >>))>>) }

\* documents whose root element is handed to the decoder of enum Choice
RootDocs ==
    { Elem("A", Elems(<<Elem("x", Text(Thirty))>>)),
      Elem("A", Elems(<<Elem("x", Text(<<" ", "7", " ">>))>>)),
      Elem("A", Elems(<<Elem("x", Text(Junk))>>)),
      Elem("A", Elems(<<Elem("y", Text(Thirty))>>)),
      Elem("B", Text(<< >>)),
      Elem("Z", Text(<< >>)),
      Elem("Z", Elems(<<Elem("x", Text(Thirty))>>)),
      Elem("a", Elems(<<Elem("x", Text(Thirty))>>)),
      Elem("Choice", Elems(<<Elem("B", Text(<< >>))>>)) }

BaseTypes ==
    { Num("u8"), Bool, Str, VecOf(Num("u8")), VecOf(Bool),
      HashMapOf(Num("u8"), Num("u8")), HashMapOf(Num("u8"), Bool),
      BTreeMapOf(Num("u8"), Num("u8")), BTreeMapOf(Num("u8"), Bool),
      StructOf("Inner"), EnumOf("Choice") }

FieldTypes == BaseTypes \cup {OptionOf(t) : t \in BaseTypes}

RECURSIVE Docs(_)
Docs(ty) ==
    CASE ty.k = "num" -> NumDocs
      [] ty.k = "bool" -> BoolDocs
      [] ty.k = "String" -> StrDocs
      [] ty.k = "Vec" -> VecDocs(ty.a)
      [] ty.k \in {"HashMap", "BTreeMap"} -> MapDocs(ty.val)
      [] ty.k = "struct" -> InnerDocs
      [] ty.k = "enum" -> ChoiceDocs
      [] ty.k = "Option" -> Docs(ty.a)

\* the content of the Holder tag: the field tag, if present, with its content
Document(in) ==
    Elems(IF in.present THEN <<Elem("f", in.content)>> ELSE << >>)

DecodeInit ==
    /\ \/ \E ty \in FieldTypes :
             \/ \E c \in Docs(ty) :
                   din = [op |-> "field", ty |-> ty, present |-> TRUE, content |-> c]
             \/ din = [op |-> "field", ty |-> ty, present |-> FALSE, content |-> Text(<< >>)]
       \/ \E doc \in RootDocs : din = [op |-> "enum", name |-> "Choice", doc |-> doc]
    /\ dout = Pending
    /\ SessionIdle
    /\ RegistryIdle

\* from_str of a Holder { f: T } document
DecodeStruct ==
    /\ din.op = "field"
    /\ dout = Pending
    /\ dout' = derive_struct(HolderFields(din.ty), Document(din))
    /\ UNCHANGED <<din, vars, rvars>>

\* from_str of a document as enum Choice
DecodeEnum ==
    /\ din.op = "enum"
    /\ dout = Pending
    /\ dout' = from_str_enum(din.name, din.doc)
    /\ UNCHANGED <<din, vars, rvars>>

DecodeNext == DecodeStruct \/ DecodeEnum

SpecDecode == DecodeInit /\ [][DecodeNext]_allvars

(* ---------------------- properties of the decoders --------------------- *)

IsField == din.op = "field" /\ dout # Pending

(* C15: for every Option<T> field, whatever T is, a present tag whose     *)
(* content fails to decode as T gives None and the surrounding struct     *)
(* still decodes.                                                         *)
C15_LenientForEveryInner ==
    (/\ IsField
     /\ is_option(din.ty)
     /\ din.present
     /\ IsErr(field_decode(din.ty.a, din.content))) =>
        dout = Ok(<<NoneV>>)

(* C16: for an Option<T> field an absent tag gives None, and a present    *)
(* tag whose content is valid for T gives Some(v), v being what the same  *)
(* content gives as a field of type T.                                    *)
C16_OptionalRoundTrip ==
    (IsField /\ is_option(din.ty)) =>
        LET direct == derive_struct(HolderFields(din.ty.a), Document(din)) IN
        /\ ~din.present => dout = Ok(<<NoneV>>)
        /\ (din.present /\ ~IsErr(direct)) => dout = Ok(<<SomeV(direct.value[1])>>)

\* an optional struct-typed field whose tag is present and valid has
\* been decoded
C16_Witness ==
    /\ IsField
    /\ din.ty = OptionOf(StructOf("Inner"))
    /\ din.present
    /\ dout = Ok(<<SomeV(StructV("Inner", <<NumV(30)>>))>>)

\* an entry that lacks its key or its value, or whose key or value does
\* not decode
MalformedEntry(ty, e) ==
    \/ Len(Tagged(e.body, "key")) = 0
    \/ Len(Tagged(e.body, "value")) = 0
    \/ \E i \in 1..Len(Tagged(e.body, "key")) :
          IsErr(plain_decode(ty.key, Tagged(e.body, "key")[i].body))
    \/ \E i \in 1..Len(Tagged(e.body, "value")) :
          IsErr(plain_decode(ty.val, Tagged(e.body, "value")[i].body))

(* C17: a sequence field with a malformed item, and a map field with a    *)
(* malformed entry (missing key, missing value, key or value that does    *)
(* not decode), fails as a whole: the struct decode is an error, never a  *)
(* shorter or empty collection.                                           *)
C17_NoLeniencyInCollections ==
    IsField =>
        LET kids == KidsOf(din.content) IN
        /\ (/\ din.ty.k = "Vec"
            /\ din.present
            /\ \E i \in 1..Len(kids) :
                  kids[i].tag = "item" /\ IsErr(plain_decode(din.ty.a, kids[i].body)))
           => IsErr(dout)
        /\ (/\ din.ty.k \in {"HashMap", "BTreeMap"}
            /\ din.present
            /\ \E i \in 1..Len(kids) :
                  kids[i].tag = "entry" /\ MalformedEntry(din.ty, kids[i]))
           => IsErr(dout)

\* a sequence of one good and one malformed item has been refused
C17_Witness ==
    /\ IsField
    /\ din.ty.k = "Vec"
    /\ din.present
    /\ din.content = Elems(<<Elem("item", Text(Thirty)), Elem("item", Text(Junk))>>)
    /\ IsErr(dout)

\* a present field of a sequence type whose children are all item elements
ItemsOnly ==
    /\ IsField
    /\ din.ty.k = "Vec"
    /\ din.present
    /\ din.content.k = "text" => trim(din.content.text) = << >>
    /\ \A i \in 1..Len(KidsOf(din.content)) : KidsOf(din.content)[i].tag = "item"

(* C21: a sequence tag with no item children decodes to the empty         *)
(* sequence, never to an error; with N item children, each of which       *)
(* decodes, it decodes to the sequence of length N whose i-th element is  *)
(* the decode of the i-th item in document order.                         *)
C21_SequenceInOrder ==
    ItemsOnly =>
        LET kids == KidsOf(din.content)
            rs == [i \in 1..Len(kids) |-> plain_decode(din.ty.a, kids[i].body)]
        IN  /\ Len(kids) = 0 => dout = Ok(<<SeqV(<< >>)>>)
            /\ (\A i \in 1..Len(kids) : ~IsErr(rs[i])) =>
                  /\ ~IsErr(dout)
                  /\ Len(dout.value[1].seq) = Len(kids)
                  /\ \A i \in 1..Len(kids) : dout.value[1].seq[i] = rs[i].value

\* two different items have been decoded in their document order
C21_Witness ==
    /\ ItemsOnly
    /\ din.ty = VecOf(Num("u8"))
    /\ din.content = Elems(<<Elem("item", Text(Thirty)), Elem("item", Text(<<"7">>))>>)
    /\ dout = Ok(<<SeqV(<<NumV(30), NumV(7)>>)>>)

\* the key and the value that an entry with one key and one value holds
KeyOf(ty, e) == plain_decode(ty.key, Tagged(e.body, "key")[1].body)
ValueOf(ty, e) == plain_decode(ty.val, Tagged(e.body, "value")[1].body)

\* a present field of a map type all of whose children are entries with
\* a key and a value that decode
EntriesOnly ==
    /\ IsField
    /\ din.ty.k \in {"HashMap", "BTreeMap"}
    /\ din.present
    /\ \A i \in 1..Len(KidsOf(din.content)) :
          /\ KidsOf(din.content)[i].tag = "entry"
          /\ ~MalformedEntry(din.ty, KidsOf(din.content)[i])

(* C22: a map field, HashMap or BTreeMap, decodes to the mapping that     *)
(* binds every key that occurs to the value of its last occurrence in     *)
(* document order; entries with pairwise distinct keys give exactly those *)
(* pairs, the same for every permutation of the entries, and no entries   *)
(* give the empty map.                                                    *)
C22_LastOccurrenceWins ==
    EntriesOnly =>
        LET kids == KidsOf(din.content)
            n == Len(kids)
            key(i) == KeyOf(din.ty, kids[i]).value
            value(i) == ValueOf(din.ty, kids[i]).value
            last(k) == CHOOSE i \in 1..n : key(i) = k /\ \A j \in 1..n : key(j) = k => j <= i
            distinct == \A i, j \in 1..n : key(i) = key(j) => i = j
        IN  /\ dout = Ok(<<MapV({<<key(i), value(last(key(i)))>> : i \in 1..n})>>)
            /\ n = 0 => dout = Ok(<<MapV({})>>)
            /\ distinct =>
                  /\ dout = Ok(<<MapV({<<key(i), value(i)>> : i \in 1..n})>>)
                  /\ \A p \in Permutations(1..n) :
                        derive_struct(HolderFields(din.ty),
                                      Elems(<<Elem("f", Elems([i \in 1..n |-> kids[p[i]]]))>>)) = dout

\* two entries with one key have been decoded: the later value is kept
C22_Witness ==
    /\ EntriesOnly
    /\ din.content = Elems(<<EntryOf(<<"1">>, Thirty), EntryOf(<<"1">>, <<"7">>)>>)
    /\ dout = Ok(<<MapV({<<NumV(1), NumV(7)>>})>>)

\* a document has been decoded as an enum
IsEnum == din.op = "enum" /\ dout # Pending

(* C23: the decode of a document as an enum goes by the outer tag of the  *)
(* document: a tag that is the name of a declared variant gives that      *)
(* variant, its fields decoded from the content by the variant's field    *)
(* rules (an error if they do not decode); a tag that is no variant's     *)
(* name gives an error, never another variant.                            *)
C23_DispatchOnOuterTag ==
    IsEnum =>
        LET vs == EnumVariants(din.name)
            named == {i \in 1..Len(vs) : vs[i].name = din.doc.tag}
        IN  /\ named = {} => IsErr(dout)
            /\ \A i \in named :
                  LET r == derive_struct(vs[i].fields, din.doc.body) IN
                  IF IsErr(r) THEN IsErr(dout)
                  ELSE dout = Ok(VariantV(din.name, vs[i].name, r.value))

\* a document with the tag of a variant with a field has been decoded to
\* that variant
C23_Witness ==
    /\ IsEnum
    /\ din.doc = Elem("A", Elems(<<Elem("x", Text(Thirty))>>))
    /\ dout = Ok(VariantV("Choice", "A", <<NumV(30)>>))

\* the primitive kinds
IsPrimitive(ty) == ty.k \in {"num", "bool", "String"}

(* C24: an item of a sequence, and a key or a value of a map entry, of a  *)
(* primitive kind is decoded by the same lenient rule as a direct struct  *)
(* field of that kind: when the rule of a direct field accepts every item *)
(* (every key and value), the container decodes, to the values that the   *)
(* rule gives.                                                            *)
C24_ContainersComposeCoercion ==
    /\ (ItemsOnly /\ IsPrimitive(din.ty.a)) =>
          LET kids == KidsOf(din.content)
              rs == [i \in 1..Len(kids) |-> field_decode(din.ty.a, kids[i].body)]
          IN  (\A i \in 1..Len(kids) : ~IsErr(rs[i])) => dout = Ok(<<SeqV(ValuesOf(rs))>>)
    /\ (/\ IsField
        /\ din.ty.k \in {"HashMap", "BTreeMap"}
        /\ din.present
        /\ IsPrimitive(din.ty.key)
        /\ IsPrimitive(din.ty.val)) =>
          LET kids == KidsOf(din.content)
              whole(i) == Len(Tagged(kids[i].body, "key")) = 1
                          /\ Len(Tagged(kids[i].body, "value")) = 1
              k(i) == field_decode(din.ty.key, Tagged(kids[i].body, "key")[1].body)
              v(i) == field_decode(din.ty.val, Tagged(kids[i].body, "value")[1].body)
          IN  (\A i \in 1..Len(kids) : whole(i) /\ ~IsErr(k(i)) /\ ~IsErr(v(i))) =>
                  ~IsErr(dout)

(* ========================== schema registry =========================== *)
(* Cache::<T>::get over CACHE_HOLDER (src/src/type/mod.rs), the LlmPrompt *)
(* impls of the composite types (option.rs, vector.rs, hashmap.rs,        *)
(* btreemap.rs) and of a derived struct (src/helper/src/lib.rs), called   *)
(* by several threads at once. A text is a sequence of chunks in which a  *)
(* line break is always a chunk of its own.                               *)

MaxCalls == 2

Callers == {"t1", "t2"}
Slots == {"prompt_schema", "root_name"}

Prim(schema, root) == [k |-> "prim", schema |-> schema, root |-> root]
Generic(k, params) == [k |-> k, params |-> params]
Struct(root, fields) == [k |-> "struct", root |-> root, fields |-> fields]

(* The types of the model. The grave accents around true and false in    *)
(* the schema of bool are left out.                                       *)
TypeDef(ty) ==
    CASE ty = "i32" ->
            Prim(<<"integer value, a whole number without a fractional part, e.g., 42, -7, or 0">>,
                 <<"i32">>)
      [] ty = "bool" ->
            Prim(<<"it is a boolean value, either true or false">>, <<"bool">>)
      [] ty = "Vec<i32>" -> Generic("Vec", <<"i32">>)
      [] ty = "Vec<bool>" -> Generic("Vec", <<"bool">>)
      [] ty = "Option<Vec<i32>>" -> Generic("Option", <<"Vec<i32>">>)
      [] ty = "HashMap<i32, bool>" -> Generic("HashMap", <<"i32", "bool">>)
      [] ty = "BTreeMap<i32, bool>" -> Generic("BTreeMap", <<"i32", "bool">>)
      [] ty = "S" -> Struct(<<"S">>, <<[name |-> "f", ty |-> "Vec<bool>", desc |-> "d"]>>)
      [] ty = "Node" ->
            Struct(<<"Node">>, <<[name |-> "children", ty |-> "Vec<Node>", desc |-> "d"]>>)
      [] ty = "Vec<Node>" -> Generic("Vec", <<"Node">>)

CompositeTypes ==
    {"Vec<i32>", "Vec<bool>", "Option<Vec<i32>>", "HashMap<i32, bool>", "BTreeMap<i32, bool>"}
StructTypes == {"S"}

\* struct Node { children: Vec<Node> }: a struct that refers back to itself
\* through a sequence
SelfTypes == {"Node", "Vec<Node>"}

IsStruct(ty) == TypeDef(ty).k = "struct"

\* the types whose schema or root name the call needs first
SubTypes(ty) ==
    IF IsStruct(ty)
    THEN [i \in 1..Len(TypeDef(ty).fields) |-> TypeDef(ty).fields[i].ty]
    ELSE TypeDef(ty).params

\* a primitive returns a literal, and so does root_name of a struct
IsConst(ty, slot) ==
    TypeDef(ty).k = "prim" \/ (IsStruct(ty) /\ slot = "root_name")

ConstValue(ty, slot) ==
    IF slot = "root_name" THEN TypeDef(ty).root ELSE TypeDef(ty).schema

\* variant: one key for all the instantiations of a generic type
TypeId_of_generic(ty) == TypeDef(ty).k

\* TypeId::of::<T>(): one identity per instantiation
TypeId_of(ty) == ty

RECURSIVE join(_, _)
join(parts, sep) ==
    IF Len(parts) = 0 THEN << >>
    ELSE IF Len(parts) = 1 THEN parts[1]
    ELSE parts[1] \o sep \o join(Tail(parts), sep)

\* the pieces of a text between its line breaks
RECURSIVE split_lines(_)
split_lines(text) ==
    IF \A i \in 1..Len(text) : text[i] # "\n" THEN <<text>>
    ELSE LET i == Min({j \in 1..Len(text) : text[j] = "\n"}) IN
         <<SubSeq(text, 1, i - 1)>> \o split_lines(SubSeq(text, i + 1, Len(text)))

\* str::lines: the final line ending is optional, no empty last line
lines(text) ==
    LET ps == split_lines(text) IN
    IF Len(ps[Len(ps)]) = 0 THEN SubSeq(ps, 1, Len(ps) - 1) ELSE ps

\* sub_schema.lines().map(|line| format!("  {}", line)).join("\n")
indent_lines(text) ==
    join([i \in 1..Len(lines(text)) |-> <<"  ">> \o lines(text)[i]], <<"\n">>)

\* helper lib.rs lines 184-195: the schema part of one field
FieldPart(f, sub_schema) ==
    <<"<", f.name, ">", "\n">> \o indent_lines(sub_schema)
    \o <<"\n", "</", f.name, "> <!-- ", f.desc, " -->">>

\* variant: the fields are listed last to first
struct_schema_reversed(root, fields, subs) ==
    <<"<">> \o root \o <<">", "\n", "  ">>
    \o join([i \in 1..Len(fields) |->
                FieldPart(fields[Len(fields) + 1 - i], subs[Len(fields) + 1 - i])],
            <<"\n", "  ">>)
    \o <<"\n", "</">> \o root \o <<">">>

\* helper lib.rs lines 52-55: the parts of the fields joined inside the root tag
struct_schema(root, fields, subs) ==
    <<"<">> \o root \o <<">", "\n", "  ">>
    \o join([i \in 1..Len(fields) |-> FieldPart(fields[i], subs[i])], <<"\n", "  ">>)
    \o <<"\n", "</">> \o root \o <<">">>

EnumPreamble == <<"The following are possible XML structures for the current enum type:">>

\* helper lib.rs lines 83-113: the example block of one variant; only named
\* fields are given to process_field
variant_schema(v, subs) ==
    LET f_parts == IF v.form = "named"
                   THEN [i \in 1..Len(v.fields) |-> FieldPart(v.fields[i], subs[i])]
                   ELSE << >>
        inner_xml == join(f_parts, <<"\n">>)
    IN  IF Len(inner_xml) = 0
        THEN <<"<", v.name, "/> <!-- ", v.desc, " -->">>
        ELSE <<"<", v.name, ">", "\n">> \o indent_lines(inner_xml)
             \o <<"\n", "</", v.name, "> <!-- ", v.desc, " -->">>

\* helper lib.rs lines 122-124
enum_schema(blocks) == join(<<EnumPreamble>> \o blocks, <<"\n">>)

(* The text that the building closure of a slot formats from the texts   *)
(* of the type's parameters (or fields).                                  *)
Format(ty, slot, args) ==
    LET d == TypeDef(ty) IN
    CASE d.k = "struct" -> struct_schema(d.root, d.fields, args)
      [] d.k = "Vec" /\ slot = "prompt_schema" ->
            <<"A series(0 or more elements) of items where each item has the following format:<item>">>
            \o args[1]
            \o <<"</item>", "\n", "NOTICE: Even a single item must be enclosed within <item></item> tags.">>
      [] d.k = "Vec" /\ slot = "root_name" -> <<"Vec<">> \o args[1] \o <<">">>
      [] d.k = "Option" /\ slot = "prompt_schema" ->
            <<"Optional. if not provided, do not include any tags. If provided, the format is: ">>
            \o args[1]
      [] d.k = "Option" /\ slot = "root_name" -> <<"Option<">> \o args[1] \o <<">">>
      [] d.k \in {"HashMap", "BTreeMap"} /\ slot = "prompt_schema" ->
            <<"a sequence of key-value pairs, where each key is ">> \o args[1]
            \o <<" and each value is ">> \o args[2]
            \o <<". The XML format should be: <entry><key>{key}</key><value>{value}</value></entry>, and this structure can be repeated multiple times.">>
      [] d.k \in {"HashMap", "BTreeMap"} /\ slot = "root_name" ->
            <<d.k, "<">> \o args[1] \o <<", ">> \o args[2] \o <<">">>

(* one-shot cells *)
EmptyCell == [state |-> "empty", by |-> "none", value |-> << >>]
RunningCell(t) == [state |-> "running", by |-> t, value |-> << >>]
DoneCell(v) == [state |-> "done", by |-> "none", value |-> v]

\* mod.rs lines 54-57
NewCacheInner(tid) == [tid |-> tid, prompt_schema |-> EmptyCell, root_name |-> EmptyCell]

Lookup(tid) == IF tid \in DOMAIN holder THEN holder[tid] ELSE 0

\* variant: storing an entry drops the entries of the other keys
Insert_clearing(tid, idx) == [k \in {tid} |-> idx]

Insert(tid, idx) ==
    [k \in DOMAIN holder \cup {tid} |-> IF k = tid THEN idx ELSE holder[k]]

(* call frames *)
AfterSubs(ty) == IF IsStruct(ty) THEN "init" ELSE "get"

StartOf(ty) ==
    IF IsStruct(ty) THEN "once"
    ELSE IF Len(SubTypes(ty)) = 0 THEN AfterSubs(ty) ELSE "subs"

\* where the closure starts: the one of a struct asks its field types first
InClosure(ty) == IF IsStruct(ty) /\ Len(SubTypes(ty)) > 0 THEN "subs" ELSE "init"

NewFrame(ty, slot) ==
    [ty |-> ty, slot |-> slot, pc |-> StartOf(ty), args |-> << >>, inner |-> 0]

GotArg(f, v) ==
    LET a == Append(f.args, v) IN
    [f EXCEPT !.args = a,
              !.pc = IF Len(a) = Len(SubTypes(f.ty)) THEN AfterSubs(f.ty) ELSE "subs"]

NoReturn == [ty |-> "none", slot |-> "none", value |-> << >>]

IdleCaller == [stack |-> << >>, ret |-> NoReturn, calls |-> 0, suspended |-> FALSE]

Top(t) == th[t].stack[Len(th[t].stack)]
Running(t) == Len(th[t].stack) > 0
At(t, pcs) == Running(t) /\ Top(t).pc \in pcs

SetTop(t, f) == [th EXCEPT ![t].stack = [@ EXCEPT ![Len(@)] = f]]
Push(t, f) == [th EXCEPT ![t].stack = Append(@, f)]

\* the top call returns v to its caller
Return(t, v) ==
    LET st == th[t].stack
        n == Len(st)
    IN  IF n = 1
        THEN [th EXCEPT ![t].stack = << >>,
                        ![t].ret = [ty |-> st[1].ty, slot |-> st[1].slot, value |-> v]]
        ELSE [th EXCEPT ![t].stack = Append(SubSeq(st, 1, n - 2), GotArg(st[n - 1], v))]

RECURSIVE CallsOf(_)
CallsOf(T) ==
    IF T = {} THEN 0
    ELSE LET t == CHOOSE x \in T : TRUE IN th[t].calls + CallsOf(T \ {t})

\* the calls made so far by all the threads
TotalCalls == CallsOf(Callers)

\* how many times the closure of a slot of a type has run
RunsOf(ty, slot) == IF <<ty, slot>> \in DOMAIN runs THEN runs[<<ty, slot>>] ELSE 0

CellOf(f) == IF IsStruct(f.ty) THEN statics[f.ty] ELSE inners[f.inner][f.slot]

RegistryInit ==
    /\ holder = << >>
    /\ inners = << >>
    /\ statics = [s \in StructTypes |-> EmptyCell]
    /\ shard = [readers |-> {}, writer |-> "none"]
    /\ th = [t \in Callers |-> IdleCaller]
    /\ runs = << >>
    /\ SessionIdle
    /\ DecodeIdle

\* a thread calls T::get_prompt_schema() or T::root_name() for one of types
CallOn(t, types) ==
    /\ ~Running(t)
    /\ ~th[t].suspended
    /\ TotalCalls < MaxCalls
    /\ \E ty \in types, slot \in Slots :
          /\ ~IsConst(ty, slot)
          /\ th' = [Push(t, NewFrame(ty, slot)) EXCEPT ![t].calls = @ + 1]
    /\ UNCHANGED <<holder, inners, statics, shard, runs, vars, dvars>>

Call(t) == CallOn(t, CompositeTypes \cup StructTypes)

\* the call asks the next parameter (or field) type for its text: a literal
\* comes back at once, another call is entered otherwise
CallSub(t) ==
    /\ At(t, {"subs"})
    /\ LET f == Top(t)
           sub == SubTypes(f.ty)[Len(f.args) + 1]
       IN  th' = IF IsConst(sub, f.slot)
                 THEN SetTop(t, GotArg(f, ConstValue(sub, f.slot)))
                 ELSE Push(t, NewFrame(sub, f.slot))
    /\ UNCHANGED <<holder, inners, statics, shard, runs, vars, dvars>>

\* mod.rs line 49: CACHE_HOLDER.get takes the read guard of the shard
LookupLock(t) ==
    /\ At(t, {"get"})
    /\ shard.writer = "none"
    /\ shard' = [shard EXCEPT !.readers = @ \cup {t}]
    /\ th' = SetTop(t, [Top(t) EXCEPT !.pc = "looked"])
    /\ UNCHANGED <<holder, inners, statics, runs, vars, dvars>>

\* variant: the guard is returned to the caller instead of being dropped
LookupHit_keeps_guard(t) ==
    /\ At(t, {"looked"})
    /\ Lookup(TypeId_of(Top(t).ty)) # 0
    /\ th' = SetTop(t, [Top(t) EXCEPT !.pc = "once", !.inner = Lookup(TypeId_of(Top(t).ty))])
    /\ UNCHANGED <<shard, holder, inners, statics, runs, vars, dvars>>

\* mod.rs lines 49-51: the entry is there, the reference is copied out and
\* the guard dropped
LookupHit(t) ==
    /\ At(t, {"looked"})
    /\ Lookup(TypeId_of(Top(t).ty)) # 0
    /\ shard' = [shard EXCEPT !.readers = @ \ {t}]
    /\ th' = SetTop(t, [Top(t) EXCEPT !.pc = "once", !.inner = Lookup(TypeId_of(Top(t).ty))])
    /\ UNCHANGED <<holder, inners, statics, runs, vars, dvars>>

\* mod.rs lines 49-51: no entry, the guard is dropped at the end of the if let
LookupMiss(t) ==
    /\ At(t, {"looked"})
    /\ Lookup(TypeId_of(Top(t).ty)) = 0
    /\ shard' = [shard EXCEPT !.readers = @ \ {t}]
    /\ th' = SetTop(t, [Top(t) EXCEPT !.pc = "entry"])
    /\ UNCHANGED <<holder, inners, statics, runs, vars, dvars>>

\* mod.rs line 53: CACHE_HOLDER.entry takes the write guard of the shard
EntryLock(t) ==
    /\ At(t, {"entry"})
    /\ shard.writer = "none"
    /\ shard.readers = {}
    /\ shard' = [shard EXCEPT !.writer = t]
    /\ th' = SetTop(t, [Top(t) EXCEPT !.pc = "entered"])
    /\ UNCHANGED <<holder, inners, statics, runs, vars, dvars>>

\* variant: a new CacheInner is stored whether or not the key has one
EntryInsert_replacing(t) ==
    /\ At(t, {"entered"})
    /\ LET tid == TypeId_of(Top(t).ty) IN
          /\ inners' = Append(inners, NewCacheInner(tid))
          /\ holder' = Insert(tid, Len(inners) + 1)
          /\ th' = SetTop(t, [Top(t) EXCEPT !.pc = "once", !.inner = Len(inners) + 1])
    /\ shard' = [shard EXCEPT !.writer = "none"]
    /\ UNCHANGED <<statics, runs, vars, dvars>>

\* mod.rs lines 53-58: or_insert_with allocates a CacheInner only for a
\* vacant key; the reference is copied out and the guard dropped
EntryInsert(t) ==
    /\ At(t, {"entered"})
    /\ LET tid == TypeId_of(Top(t).ty) IN
          IF Lookup(tid) = 0
          THEN /\ inners' = Append(inners, NewCacheInner(tid))
               /\ holder' = Insert(tid, Len(inners) + 1)
               /\ th' = SetTop(t, [Top(t) EXCEPT !.pc = "once", !.inner = Len(inners) + 1])
          ELSE /\ UNCHANGED <<inners, holder>>
               /\ th' = SetTop(t, [Top(t) EXCEPT !.pc = "once", !.inner = Lookup(tid)])
    /\ shard' = [shard EXCEPT !.writer = "none"]
    /\ UNCHANGED <<statics, runs, vars, dvars>>

\* get_or_init on a cell that is set: its value is returned
OnceDone(t) ==
    /\ At(t, {"once"})
    /\ CellOf(Top(t)).state = "done"
    /\ th' = Return(t, CellOf(Top(t)).value)
    /\ UNCHANGED <<holder, inners, statics, shard, runs, vars, dvars>>

SetCell(f, cell) ==
    IF IsStruct(f.ty)
    THEN /\ statics' = [statics EXCEPT ![f.ty] = cell]
         /\ UNCHANGED inners
    ELSE /\ inners' = [inners EXCEPT ![f.inner][f.slot] = cell]
         /\ UNCHANGED statics

\* variant: a thread starts the closure of a cell that another is running
OnceBegin_racing(t) ==
    /\ At(t, {"once"})
    /\ CellOf(Top(t)).state \in {"empty", "running"}
    /\ SetCell(Top(t), RunningCell(t))
    /\ th' = SetTop(t, [Top(t) EXCEPT !.pc = InClosure(Top(t).ty)])
    /\ UNCHANGED <<holder, shard, runs, vars, dvars>>

\* get_or_init on an empty cell: this thread is the one to run the closure;
\* a thread that finds the cell being initialised waits
OnceBegin(t) ==
    /\ At(t, {"once"})
    /\ CellOf(Top(t)).state = "empty"
    /\ SetCell(Top(t), RunningCell(t))
    /\ th' = SetTop(t, [Top(t) EXCEPT !.pc = InClosure(Top(t).ty)])
    /\ UNCHANGED <<holder, shard, runs, vars, dvars>>

\* the closure formats the text, the cell is set and its value returned
InitRun(t) ==
    /\ At(t, {"init"})
    /\ LET f == Top(t)
           v == Format(f.ty, f.slot, f.args)
       IN  /\ SetCell(f, DoneCell(v))
           /\ runs' = [k \in DOMAIN runs \cup {<<f.ty, f.slot>>} |->
                          IF k = <<f.ty, f.slot>> THEN RunsOf(f.ty, f.slot) + 1 ELSE runs[k]]
           /\ th' = Return(t, v)
    /\ UNCHANGED <<holder, shard, vars, dvars>>

\* bind.rs lines 62-64: a session that has its texts awaits the client
Suspend(t) ==
    /\ ~Running(t)
    /\ ~th[t].suspended
    /\ th[t].calls > 0
    /\ th' = [th EXCEPT ![t].suspended = TRUE]
    /\ UNCHANGED <<holder, inners, statics, shard, runs, vars, dvars>>

\* the client has answered
Resume(t) ==
    /\ th[t].suspended
    /\ th' = [th EXCEPT ![t].suspended = FALSE]
    /\ UNCHANGED <<holder, inners, statics, shard, runs, vars, dvars>>

RegistryNext ==
    \E t \in Callers :
        \/ Call(t)
        \/ CallSub(t)
        \/ LookupLock(t)
        \/ LookupHit(t)
        \/ LookupMiss(t)
        \/ EntryLock(t)
        \/ EntryInsert(t)
        \/ OnceDone(t)
        \/ OnceBegin(t)
        \/ InitRun(t)
        \/ Suspend(t)
        \/ Resume(t)

SpecRegistry == RegistryInit /\ [][RegistryNext]_allvars

(* ------------------- retrieval for every nesting of types -------------- *)

NestedTypes == CompositeTypes \cup StructTypes \cup SelfTypes

NestedInit ==
    /\ holder = << >>
    /\ inners = << >>
    /\ statics = [s \in StructTypes \cup {"Node"} |-> EmptyCell]
    /\ shard = [readers |-> {}, writer |-> "none"]
    /\ th = [t \in Callers |-> IdleCaller]
    /\ runs = << >>
    /\ SessionIdle
    /\ DecodeIdle

CallNested(t) == CallOn(t, NestedTypes)

(* get_or_init entered again by the thread that is running the closure of *)
(* the same cell. The outcome is unspecified: the thread blocks forever   *)
(* (no step of the model) or it panics (this step).                       *)
OnceReentered(t) ==
    /\ At(t, {"once"})
    /\ CellOf(Top(t)).state = "running"
    /\ CellOf(Top(t)).by = t
    /\ th' = SetTop(t, [Top(t) EXCEPT !.pc = "panicked"])
    /\ UNCHANGED <<holder, inners, statics, shard, runs, vars, dvars>>

\* a step of a call in progress of thread t
Proceed(t) ==
    \/ CallSub(t)
    \/ LookupLock(t)
    \/ LookupHit(t)
    \/ LookupMiss(t)
    \/ EntryLock(t)
    \/ EntryInsert(t)
    \/ OnceDone(t)
    \/ OnceBegin(t)
    \/ InitRun(t)

NestedNext ==
    \E t \in Callers :
        \/ CallNested(t)
        \/ CallSub(t)
        \/ LookupLock(t)
        \/ LookupHit(t)
        \/ LookupMiss(t)
        \/ EntryLock(t)
        \/ EntryInsert(t)
        \/ OnceDone(t)
        \/ OnceBegin(t)
        \/ InitRun(t)
        \/ OnceReentered(t)

\* every thread is scheduled: a call that can take a step takes one
SpecNested ==
    /\ NestedInit
    /\ [][NestedNext]_allvars
    /\ \A t \in Callers : WF_allvars(Proceed(t))

(* ---------------------- properties of the registry --------------------- *)

Returned(t) == th[t].ret # NoReturn

\* the slot of the type is set, as a caller finds it through the registry
Published(ty, slot) ==
    IF IsStruct(ty) THEN statics[ty].state = "done"
    ELSE /\ Lookup(TypeId_of(ty)) # 0
         /\ inners[Lookup(TypeId_of(ty))][slot].state = "done"

PublishedValue(ty, slot) ==
    IF IsStruct(ty) THEN statics[ty].value
    ELSE inners[Lookup(TypeId_of(ty))][slot].value

CachedSlots ==
    {<<ty, slot>> \in (CompositeTypes \cup StructTypes) \X Slots : ~IsConst(ty, slot)}

(* C11: for every composite type and every interleaving of concurrent     *)
(* first callers of get_prompt_schema or root_name, all callers get the   *)
(* identical text and the building closure runs exactly once per type     *)
(* and slot.                                                              *)
C11_SingleBuild ==
    /\ \A p \in CachedSlots :
          /\ RunsOf(p[1], p[2]) <= 1
          /\ Published(p[1], p[2]) => RunsOf(p[1], p[2]) = 1
    /\ \A t \in Callers : Returned(t) =>
          /\ Published(th[t].ret.ty, th[t].ret.slot)
          /\ RunsOf(th[t].ret.ty, th[t].ret.slot) = 1
          /\ th[t].ret.value = PublishedValue(th[t].ret.ty, th[t].ret.slot)
    /\ \A t1, t2 \in Callers :
          (/\ Returned(t1) /\ Returned(t2)
           /\ th[t1].ret.ty = th[t2].ret.ty
           /\ th[t1].ret.slot = th[t2].ret.slot)
          => th[t1].ret.value = th[t2].ret.value

\* two first callers of one slot of a composite type: one runs the closure
\* while the other waits at the cell
C11_Witness ==
    \E t1, t2 \in Callers :
        /\ t1 # t2
        /\ At(t1, {"init"}) /\ At(t2, {"once"})
        /\ Top(t1).ty = Top(t2).ty /\ Top(t1).slot = Top(t2).slot
        /\ Top(t1).ty \in CompositeTypes
        /\ Top(t1).inner = Top(t2).inner

C12_Stable ==
    \A p \in CachedSlots :
        Published(p[1], p[2]) =>
            /\ Published(p[1], p[2])'
            /\ PublishedValue(p[1], p[2])' = PublishedValue(p[1], p[2])

(* C12: once the schema text or the root tag of a type is published,     *)
(* every later call returns that value: no step replaces, clears or       *)
(* recomputes a published slot.                                           *)
C12_PublishedForGood ==
    /\ [](\A t \in Callers : Returned(t) =>
            /\ Published(th[t].ret.ty, th[t].ret.slot)
            /\ th[t].ret.value = PublishedValue(th[t].ret.ty, th[t].ret.slot))
    /\ [][C12_Stable]_allvars

\* a call has found the slot published by an earlier call
C12_Witness ==
    \E t1, t2 \in Callers :
        /\ t1 # t2
        /\ Returned(t1)
        /\ At(t2, {"once"})
        /\ Top(t2).ty = th[t1].ret.ty /\ Top(t2).slot = th[t1].ret.slot
        /\ CellOf(Top(t2)) = DoneCell(th[t1].ret.value)

\* the text of a slot: the template of the type applied to the texts of
\* its own parameters
RECURSIVE Expected(_, _)
Expected(ty, slot) ==
    IF IsConst(ty, slot) THEN ConstValue(ty, slot)
    ELSE Format(ty, slot, [i \in 1..Len(SubTypes(ty)) |-> Expected(SubTypes(ty)[i], slot)])

(* C13: every instantiation of a generic type has its own cache entry.   *)
(* The text returned for a type is the template applied to the schemas   *)
(* of its own parameters, never the text cached for another              *)
(* instantiation, and the two slots of a type never hold each other's     *)
(* value.                                                                 *)
C13_OwnEntry ==
    /\ \A tid \in DOMAIN holder : inners[holder[tid]].tid = tid
    /\ \A t \in Callers : \A i \in 1..Len(th[t].stack) :
          th[t].stack[i].inner # 0 => inners[th[t].stack[i].inner].tid = th[t].stack[i].ty
    /\ \A t \in Callers : Returned(t) =>
          th[t].ret.value = Expected(th[t].ret.ty, th[t].ret.slot)
    /\ \A p \in CachedSlots : Published(p[1], p[2]) =>
          PublishedValue(p[1], p[2]) = Expected(p[1], p[2])
    /\ \A ty \in CompositeTypes :
          Expected(ty, "prompt_schema") # Expected(ty, "root_name")

\* two instantiations of Vec have each published their own schema
C13_Witness ==
    /\ Published("Vec<i32>", "prompt_schema")
    /\ Published("Vec<bool>", "prompt_schema")
    /\ Lookup(TypeId_of("Vec<i32>")) # Lookup(TypeId_of("Vec<bool>"))
    /\ PublishedValue("Vec<i32>", "prompt_schema") # PublishedValue("Vec<bool>", "prompt_schema")

\* what thread t2 waits for is held by thread t
WaitsFor(t2, t) ==
    \/ At(t2, {"get"}) /\ shard.writer = t
    \/ At(t2, {"entry"}) /\ (shard.writer = t \/ t \in shard.readers)
    \/ At(t2, {"once"}) /\ CellOf(Top(t2)).state = "running" /\ CellOf(Top(t2)).by = t

(* C14: while a session awaits the completion client it holds no guard   *)
(* of the registry shard and no one-shot cell initialisation in progress: *)
(* a suspended session blocks no other caller's retrieval.                *)
C14_NothingHeldAcrossAwait ==
    \A t \in Callers : th[t].suspended =>
        /\ ~Running(t)
        /\ t \notin shard.readers
        /\ shard.writer # t
        /\ \A s \in StructTypes : ~(statics[s].state = "running" /\ statics[s].by = t)
        /\ \A i \in 1..Len(inners) : \A slot \in Slots :
              ~(inners[i][slot].state = "running" /\ inners[i][slot].by = t)
        /\ \A t2 \in Callers : ~WaitsFor(t2, t)

\* a session is suspended after a retrieval while another caller holds
\* the write guard of the shard
C14_Witness ==
    \E t, t2 \in Callers :
        /\ th[t].suspended
        /\ Returned(t)
        /\ At(t2, {"entered"})
        /\ shard.writer = t2

(* C28: every call of get_prompt_schema or root_name eventually returns,  *)
(* for every type of the model, the struct that refers back to itself     *)
(* through a sequence included, and for concurrent first callers.         *)
C28_EveryCallReturns ==
    \A t \in Callers : [](Running(t) => <>(~Running(t)))

(* C30: for every interleaving of Cache::<T>::get() calls, callers that   *)
(* all miss the first lookup included, one CacheInner at most is ever     *)
(* allocated per type identity, every caller holds the reference stored   *)
(* in the map, and an entry of the map is never replaced or removed.      *)
C30_EntryKept ==
    \A tid \in DOMAIN holder : tid \in DOMAIN holder' /\ holder'[tid] = holder[tid]

C30_OneCacheInner ==
    /\ [](/\ \A i, j \in 1..Len(inners) : inners[i].tid = inners[j].tid => i = j
          /\ \A i \in 1..Len(inners) : Lookup(inners[i].tid) = i
          /\ \A t \in Callers : \A i \in 1..Len(th[t].stack) :
                th[t].stack[i].inner # 0
                => th[t].stack[i].inner = Lookup(TypeId_of(th[t].stack[i].ty)))
    /\ [][C30_EntryKept]_allvars

\* two callers missed the lookup of one type; one has stored a CacheInner
\* and the other, holding the write guard, finds the key occupied
C30_Witness ==
    \E t1, t2 \in Callers :
        /\ t1 # t2
        /\ At(t1, {"once"}) /\ At(t2, {"entered"})
        /\ Top(t1).ty = Top(t2).ty
        /\ Top(t1).inner # 0
        /\ Lookup(TypeId_of(Top(t2).ty)) = Top(t1).inner
        /\ Len(inners) = 1

(* ==================== schema text of a declaration ==================== *)
(* The get_prompt_schema that the macro llm_prompt generates for a struct *)
(* and for an enum (src/helper/src/lib.rs), applied to declarations: a    *)
(* declaration lists its fields (or variants) in the order written; a     *)
(* description is the empty string when no prompt attribute is given.     *)

MaxFields == 2
MaxVariants == 2

FieldNames == {"a", "b", "c"}
VariantNames == {"A", "B", "C"}
Descriptions == {"", "d"}
FieldTys == {"bool", "Vec<i32>"}

FieldDecl(name, ty, desc) == [name |-> name, ty |-> ty, desc |-> desc]
FieldDecls == {FieldDecl(n, ty, d) : n \in FieldNames, ty \in FieldTys, d \in Descriptions}

Distinct(q) == \A i, j \in 1..Len(q) : q[i].name = q[j].name => i = j

FieldLists(n) == {q \in SeqsUpTo(FieldDecls, n) : Distinct(q)}

\* named fields, or the unnamed fields of a tuple struct
StructDecls ==
    {[root |-> <<"R">>, form |-> f, fields |-> q] :
        f \in {"named", "tuple"}, q \in FieldLists(MaxFields)}

\* the fields a variant may carry: none, named ones, unnamed ones
VariantShapes ==
    { [form |-> "unit", fields |-> << >>],
      [form |-> "named", fields |-> << >>],
      [form |-> "named", fields |-> <<FieldDecl("a", "bool", "d")>>],
      [form |-> "named", fields |-> <<FieldDecl("a", "Vec<i32>", ""), FieldDecl("b", "bool", "d")>>],
      [form |-> "tuple", fields |-> <<FieldDecl("0", "bool", "")>>] }

VariantDecls ==
    {[name |-> n, desc |-> d, form |-> sh.form, fields |-> sh.fields] :
        n \in VariantNames, d \in Descriptions, sh \in VariantShapes}

EnumDecls == {[variants |-> q] : q \in {x \in SeqsUpTo(VariantDecls, MaxVariants) : Distinct(x)}}

\* helper lib.rs line 186: the schema text of the type of a field
sub_schema(ty) ==
    IF IsConst(ty, "prompt_schema") THEN ConstValue(ty, "prompt_schema")
    ELSE Format(ty, "prompt_schema",
                [i \in 1..Len(SubTypes(ty)) |-> ConstValue(SubTypes(ty)[i], "prompt_schema")])

sub_schemas(fields) == [i \in 1..Len(fields) |-> sub_schema(fields[i].ty)]

\* helper lib.rs lines 39-57: only named fields get a generator
struct_prompt_schema(decl) ==
    LET fs == IF decl.form = "named" THEN decl.fields ELSE << >> IN
    struct_schema(decl.root, fs, sub_schemas(fs))

\* helper lib.rs lines 64-125
enum_prompt_schema(decl) ==
    enum_schema([i \in 1..Len(decl.variants) |->
                    variant_schema(decl.variants[i], sub_schemas(decl.variants[i].fields))])

SchemaInit ==
    /\ din \in {[op |-> "struct", decl |-> d] : d \in StructDecls}
               \cup {[op |-> "enum", decl |-> e] : e \in EnumDecls}
    /\ dout = Pending
    /\ SessionIdle
    /\ RegistryIdle

\* get_prompt_schema of a derived struct
DeriveStruct ==
    /\ din.op = "struct"
    /\ dout = Pending
    /\ dout' = Ok(struct_prompt_schema(din.decl))
    /\ UNCHANGED <<din, vars, rvars>>

\* get_prompt_schema of a derived enum
DeriveEnum ==
    /\ din.op = "enum"
    /\ dout = Pending
    /\ dout' = Ok(enum_prompt_schema(din.decl))
    /\ UNCHANGED <<din, vars, rvars>>

SchemaNext == DeriveStruct \/ DeriveEnum

SpecSchema == SchemaInit /\ [][SchemaNext]_allvars

(* ------------------- properties of the derived schema ------------------ *)

\* the line on which the block of the i-th field starts, the root tag
\* being line 1
RECURSIVE BlockStart(_, _)
BlockStart(fields, i) ==
    IF i = 1 THEN 2
    ELSE BlockStart(fields, i - 1) + Len(lines(sub_schema(fields[i - 1].ty))) + 2

(* C25: the schema text of a struct with named fields is the root tag     *)
(* named after the type around one block per field, in declaration        *)
(* order; a block is the tag named after the field, every line of the     *)
(* schema text of the field type indented, and the closing tag followed   *)
(* by a comment with the description, empty when none was given.          *)
C25_StructSchema ==
    (din.op = "struct" /\ dout # Pending /\ din.decl.form = "named") =>
        LET L == lines(dout.value)
            fs == din.decl.fields
            n == Len(fs)
        IN  /\ L[1] = <<"<">> \o din.decl.root \o <<">">>
            /\ L[Len(L)] = <<"</">> \o din.decl.root \o <<">">>
            /\ n = 0 => Len(L) = 3 /\ L[2] = <<"  ">>
            /\ n > 0 => Len(L) = BlockStart(fs, n + 1)
            /\ \A i \in 1..n :
                  LET at == BlockStart(fs, i)
                      sub == lines(sub_schema(fs[i].ty))
                  IN  /\ L[at] = <<"  ", "<", fs[i].name, ">">>
                      /\ \A k \in 1..Len(sub) : L[at + k] = <<"  ">> \o sub[k]
                      /\ L[at + Len(sub) + 1] = <<"</", fs[i].name, "> <!-- ", fs[i].desc, " -->">>

\* a struct of two fields, the first of a type with a schema of two lines
\* and no description
C25_Witness ==
    /\ din.op = "struct"
    /\ din.decl.form = "named"
    /\ din.decl.fields = <<FieldDecl("b", "Vec<i32>", ""), FieldDecl("a", "bool", "d")>>
    /\ dout # Pending
    /\ Len(lines(dout.value)) = 9

SelfClosing(v) == <<"<", v.name, "/> <!-- ", v.desc, " -->">>

(* C26: the schema text of an enum is the preamble and then one block per *)
(* variant in declaration order; the block is the self-closing tag with   *)
(* its comment exactly when the variant carries no fields, and a nested   *)
(* block opened by the tag of the variant whenever it carries fields,     *)
(* named or unnamed.                                                      *)
C26_SelfClosingIffNoFields ==
    (din.op = "enum" /\ dout # Pending) =>
        LET L == lines(dout.value)
            vs == din.decl.variants
            Heads(v) == {k \in 2..Len(L) : L[k] \in {SelfClosing(v), <<"<", v.name, ">">>}}
        IN  /\ L[1] = EnumPreamble
            /\ \A i \in 1..Len(vs) :
                  /\ Cardinality(Heads(vs[i])) = 1
                  /\ \A k \in Heads(vs[i]) :
                        (L[k] = SelfClosing(vs[i])) <=> (Len(vs[i].fields) = 0)
            /\ \A i, j \in 1..Len(vs) :
                  i < j => \A k \in Heads(vs[i]) : \A l \in Heads(vs[j]) : k < l

====
